---- MODULE Spec2Model ----
(***************************************************************************)
(* threepole: the activity cache store (src-tauri/src/cache.rs), the       *)
(* player-data poller, the bulk history fetch and the PGCR enrichment      *)
(* (src-tauri/src/pollers/playerdata.rs).                                  *)
(*                                                                         *)
(* One module, several specifications, one per component:                  *)
(*   SpecCache   CacheManager's in-memory operations                       *)
(*   SpecLoad    CacheManager::load and its caller in main                 *)
(*   SpecStale   the two staleness decisions                               *)
(*   SpecEnrich  fetch_pgcrs_for_activities                                *)
(*   SpecBulk    fetch_all_activities_concurrent, one character            *)
(*   SpecPoller  the task spawned by PlayerDataPoller::reset               *)
(*   SpecLongPoller  the same task followed over more ticks                *)
(*   SpecCancel  reset while the first cycle's bulk fetch is running       *)
(*   SpecHistory update_history, await by await                            *)
(*   SpecSnapshot get_playerdata, reset and the task on the two mutexes    *)
(*   SpecRequest make_request (src-tauri/src/api/requests.rs)              *)
(*   SpecFilter  the two copies of the keep/drop filter                    *)
(*   SpecWeekly  get_destiny_weekly_reset_time                             *)
(*   SpecSave    CacheManager::save inside update_history, over resets     *)
(*   SpecChars   the page workers of all characters on the one semaphore   *)
(*   SpecEnrichFair  SpecEnrich with every task that can step stepping     *)
(*   SpecCurrent update_current, await by await                            *)
(*   SpecLifetime  update_history called again and again, over resets      *)
(*   SpecAbort   reset's abort against a task that is being polled         *)
(* Every specification leaves the variables of the other components at     *)
(* their initial values.                                                   *)
(***************************************************************************)
EXTENDS Integers, Sequences, FiniteSets, TLC

VARIABLES
    \* the cache store
    cache,      \* CacheManager: [profiles, version]
    now,        \* the wall clock Utc::now() reads
    op,         \* the last CacheManager operation: [name, p, arg, res]
    \* start-up
    file,       \* the persisted document activity_cache.json
    configDir,  \* whether dirs::config_dir() finds a directory
    loadRes,    \* what CacheManager::load returned
    managed,    \* the store main hands to CacheContainer
    pcMain,     \* where main is: "start", "loaded", "managed"
    \* fetch_pgcrs_for_activities
    acts,       \* activities: the list being enriched
    acts0,      \* the list as the current pass received it
    pcEnrich,   \* "idle", "running" (tasks spawned), "returned"
    fetch_list, \* the indices of the activities to fetch, in order
    task,       \* the spawned tasks, one per element of fetch_list
    joined,     \* how many handles the final loop has awaited
    permits,    \* free permits of the PGCR semaphore
    reqCount,   \* Api::get_pgcr calls of this pass, per activity index
    reqEver,    \* Api::get_pgcr calls of all passes
    passes,     \* passes started
    \* fetch_all_activities_concurrent, the workers of one character
    remote,         \* the character's history at the remote: [pages]
    wpc,            \* per worker: "check", "claim", "acquire", "inflight",
                    \*             "push", "done"
    wpage,          \* per worker: the page index it claimed last
    wpend,          \* per worker: activities of its page not yet filtered
    wsaw,           \* per worker: why it left the loop
    next_page,      \* the shared page counter
    should_stop,    \* the shared stop flag
    all_activities, \* the shared accumulator
    histPermits,    \* free permits of the history semaphore
    requested,      \* per page index: Api::get_activity_history calls
    anyError,       \* whether a page request has failed
    pcBulk,         \* "workers", "cached"
    \* PlayerDataPoller and the task reset spawns
    pcPoller,         \* "none", "spawned", "profile_info", "bootstrap_current",
                      \* "bootstrap_history", "sleeping", "steady_current",
                      \* "steady_history", "exited"
    status,           \* current_playerdata: [last_update, error]
    published,        \* the status send_data_update emitted last
    count,            \* the task's tick counter
    task_history,     \* the task's local copy of the activity history
    selected_profile, \* the configuration's selected profile
    lastCycle,        \* the refresh the task completed last and its result
    ticks,            \* wake-ups of the steady loop so far
    resets,           \* calls of reset so far
    task_current,     \* the task's working copy of the current activity
    sent,             \* whether the poller's latest step called send_data_update
    sinceHistory,     \* current-activity ticks since the last history refresh
    \* update_history, step by step
    pcHist,    \* where the call is: "idle", "profile_info", "lock",
               \* "first_page", "pages", "pgcr", "finish", "bulk",
               \* "bulk_pgcr", "returned"
    cacheLock,    \* the holder of the CacheContainer mutex, or "free"
    hist_cache0,    \* the store as the call found it
    hist_new,    \* new_activities / all_activities of the call
    hist_last,    \* last_history, the caller's list
    hist_res,   \* the result of the call
    \* get_playerdata and reset on the two mutexes
    container_lock,    \* holder of the PlayerDataPollerContainer mutex
    playerdata_lock,    \* holder of the current_playerdata mutex
    playerdata,    \* the PlayerDataStatus behind the mutex
    pcQuery,    \* position of each get_playerdata command
    answer,    \* what each command returned last
    pcResetter,    \* position of the caller of reset
    pcTask,    \* the poller task on the status mutex
    abort_pending,   \* the task was aborted inside a synchronous section
    \* make_request
    pcReq,    \* position of make_request_with_retry
    retry_count,    \* its local retry_count
    sends,    \* sends of the request so far
    waits,    \* the sleeps of the request so far, in seconds
    last_resp,    \* what the latest send met
    req_result,   \* what make_request returned
    \* the keep/drop filter on chosen inputs
    filt_activity,    \* an activity handed to both filters
    filt_list,    \* a list handed to both filters
    filt_reset,    \* the weekly reset handed to them
    filt_verdict,    \* what the filters said of the activity
    filt_kept,    \* what retain left of the list
    filt_pushed,   \* what a worker pushed of the list
    \* get_destiny_weekly_reset_time on chosen instants
    wk_t1,    \* an instant handed to get_destiny_weekly_reset_time
    wk_t2,    \* a later instant handed to it
    wk_b1,    \* the boundary returned for the first
    wk_b2,   \* the boundary returned for the second
    \* CacheManager::save across resets
    liveTask,    \* the task spawned by the latest reset, 0 before the first
    saveLock,    \* the task holding the mutex of the store, 0 when free
    pcSave,    \* position of each task in update_history
    savesLeft,    \* saves the update of each task still has to make
    writes,    \* writes of the cache file in progress
    disk,    \* the task whose store the cache file holds, 0 at first
    mem,    \* the task that last brought the store in memory up to date
    saveRes,    \* what update_history returned to each task
    saveErr,   \* whether a save of the update of each task failed
    \* the workers of several characters on the one semaphore
    chpc,    \* position of each worker of each character
    ch_next_page,    \* next_page of each character
    ch_should_stop,    \* should_stop of each character
    sharedPermits,   \* free permits of the semaphore all characters share
    \* update_current, step by step
    pcCur,    \* position of one update_current call
    cur_last,    \* the CurrentActivity the call started from
    cur_now,    \* the CurrentActivity behind last_activity
    cur_latest,    \* the newest character activity of the answer, if any
    cur_lookup,    \* the answer of the definition lookup
    cur_res,   \* the call's result
    \* the history updates of one process
    life_pc,    \* where the running update_history is: "idle", "bulk", "bulk_pgcr", "incremental"
    life_profile,    \* the profile of the running poller task
    life_history,    \* the task's activity history
    bulk_started,    \* bulk fetches started, per profile
    bulk_completed,    \* bulk fetches whose update_history returned, per profile
    life_calls,    \* calls of update_history so far
    life_resets,   \* resets so far
    \* reset and the task it aborts
    ab_task,    \* per task: "none", "suspended", "polled", "waiting", "locked", "gone"
    ab_aborted,    \* per task: abort() was called on its handle
    ab_lock,    \* the status mutex: "free", "task", "reset"
    ab_reset,    \* where reset is: "idle", "lock", "write", "spawn", "done"
    ab_status,    \* who wrote the shared status last: a task, or 0 for reset
    ab_log,    \* who sent a status to the frontend, in order
    ab_left    \* publications each task still makes

cacheVars  == <<cache, now, op>>
loadVars   == <<file, configDir, loadRes, managed, pcMain>>
enrichVars == <<acts, acts0, pcEnrich, fetch_list, task, joined, permits,
                reqCount, reqEver, passes>>
bulkVars   == <<remote, wpc, wpage, wpend, wsaw, next_page, should_stop,
                all_activities, histPermits, requested, anyError, pcBulk>>

pollerVars == <<pcPoller, status, published, count, task_history,
                selected_profile, lastCycle, ticks, resets, task_current,
                sent, sinceHistory>>

histVars == <<pcHist, cacheLock, hist_cache0, hist_new, hist_last, hist_res>>

snapVars == <<container_lock, playerdata_lock, playerdata, pcQuery, answer, pcResetter, pcTask, abort_pending>>

reqVars == <<pcReq, retry_count, sends, waits, last_resp, req_result>>

filterVars == <<filt_activity, filt_list, filt_reset, filt_verdict, filt_kept, filt_pushed>>

weeklyVars == <<wk_t1, wk_t2, wk_b1, wk_b2>>

saveVars == <<liveTask, saveLock, pcSave, savesLeft, writes, disk, mem, saveRes, saveErr>>

charsVars == <<chpc, ch_next_page, ch_should_stop, sharedPermits>>

currentVars == <<pcCur, cur_last, cur_now, cur_latest, cur_lookup, cur_res>>

lifeVars == <<life_pc, life_profile, life_history, bulk_started, bulk_completed, life_calls, life_resets>>

abortVars == <<ab_task, ab_aborted, ab_lock, ab_reset, ab_status, ab_log, ab_left>>

vars == <<cacheVars, loadVars, enrichVars, bulkVars, pollerVars,
         histVars,
         snapVars,
         reqVars,
         filterVars,
         weeklyVars,
         saveVars,
         charsVars,
         currentVars,
         lifeVars,
         abortVars>>

\* what the actions of one component leave alone
notCache  == <<loadVars, enrichVars, bulkVars, pollerVars,
              histVars,
              snapVars,
              reqVars,
              filterVars,
              weeklyVars,
              saveVars,
              charsVars,
              currentVars,
              lifeVars,
              abortVars>>
notLoad   == <<cacheVars, enrichVars, bulkVars, pollerVars,
              histVars,
              snapVars,
              reqVars,
              filterVars,
              weeklyVars,
              saveVars,
              charsVars,
              currentVars,
              lifeVars,
              abortVars>>
notEnrich == <<cacheVars, loadVars, bulkVars, pollerVars,
              histVars,
              snapVars,
              reqVars,
              filterVars,
              weeklyVars,
              saveVars,
              charsVars,
              currentVars,
              lifeVars,
              abortVars>>
notBulk   == <<cacheVars, loadVars, enrichVars, pollerVars,
              histVars,
              snapVars,
              reqVars,
              filterVars,
              weeklyVars,
              saveVars,
              charsVars,
              currentVars,
              lifeVars,
              abortVars>>
notPoller == <<loadVars, enrichVars, bulkVars,
              histVars,
              snapVars,
              reqVars,
              filterVars,
              weeklyVars,
              saveVars,
              charsVars,
              currentVars,
              lifeVars,
              abortVars>>
notBulkCache == <<loadVars, enrichVars, pollerVars,
              histVars,
              snapVars,
              reqVars,
              filterVars,
              weeklyVars,
              saveVars,
              charsVars,
              currentVars,
              lifeVars,
              abortVars>>
notHist == <<loadVars, enrichVars, bulkVars, pollerVars,
              snapVars,
              reqVars,
              filterVars,
              weeklyVars,
              saveVars,
              charsVars,
              currentVars,
              lifeVars,
              abortVars>>
notSnap == <<cacheVars, loadVars, enrichVars, bulkVars, pollerVars, histVars,
              reqVars,
              filterVars,
              weeklyVars,
              saveVars,
              charsVars,
              currentVars,
              lifeVars,
              abortVars>>
notReq == <<cacheVars, loadVars, enrichVars, bulkVars, pollerVars, histVars, snapVars,
              filterVars,
              weeklyVars,
              saveVars,
              charsVars,
              currentVars,
              lifeVars,
              abortVars>>
notFilter == <<cacheVars, loadVars, enrichVars, bulkVars, pollerVars, histVars, snapVars, reqVars,
              weeklyVars,
              saveVars,
              charsVars,
              currentVars,
              lifeVars,
              abortVars>>
notWeekly == <<cacheVars, loadVars, enrichVars, bulkVars, pollerVars, histVars, snapVars, reqVars, filterVars,
              saveVars,
              charsVars,
              currentVars,
              lifeVars,
              abortVars>>
notSave == <<cacheVars, loadVars, enrichVars, bulkVars, pollerVars, histVars, snapVars, reqVars, filterVars, weeklyVars,
              charsVars,
              currentVars,
              lifeVars,
              abortVars>>
notChars == <<cacheVars, loadVars, enrichVars, bulkVars, pollerVars, histVars, snapVars, reqVars, filterVars, weeklyVars, saveVars,
              currentVars,
              lifeVars,
              abortVars>>
notCurrent == <<cacheVars, loadVars, enrichVars, bulkVars, pollerVars, histVars, snapVars, reqVars, filterVars, weeklyVars, saveVars, charsVars,
              lifeVars,
              abortVars>>
notLife == <<loadVars, enrichVars, bulkVars, pollerVars, histVars, snapVars, reqVars, filterVars, weeklyVars, saveVars, charsVars, currentVars,
              abortVars>>
notAbort == <<cacheVars, loadVars, enrichVars, bulkVars, pollerVars, histVars, snapVars, reqVars, filterVars, weeklyVars, saveVars, charsVars, currentVars, lifeVars>>

-----------------------------------------------------------------------------
(* Program constants *)

CACHE_VERSION == 2

-----------------------------------------------------------------------------
(* Bounds of the model *)

\* longest activity list handed to update_cache / merge_activities /
\* has_new_activities, and longest list a profile holds
MaxLen == 2

\* longest list handed to fetch_pgcrs_for_activities
MaxEnrichLen == 2

\* passes of fetch_pgcrs_for_activities over the same list
MaxPasses == 2

\* permits of the PGCR semaphore (75 in the program), scaled to the lists
PgcrPermits == 1

\* workers per character (10 in the program)
NumWorkers == 2

\* permits of the history semaphore (30 in the program)
HistoryPermits == 1

\* the page-index ceiling of the workers (1250 in the program)
MaxFetchPages == 3

\* most non-empty pages the remote holds for the character
MaxRemotePages == 3

\* the weekly reset instant handed to the filters, on the scale of the
\* periods of the activities
WeeklyReset == 2

\* longest list a page request of the poller's history refresh returns
MaxPollLen == 1

\* wake-ups of the poller's steady loop
MaxTicks == 6
MaxLongTicks == 11

\* calls of PlayerDataPoller::reset
MaxResets == 2

\* concurrent invocations of the get_playerdata command
NumCallers == 2

\* latest period of an activity and latest weekly reset handed to the filters
MaxFilterPeriod == 3

\* longest list handed to the filters
MaxFilterLen == 2

\* days from 1970-01-01 on whose instants are handed to
\* get_destiny_weekly_reset_time
MaxDays == 15

\* poller tasks spawned one after the other while the store is saved
MaxSaveTasks == 2

\* characters of the profile whose workers share the history semaphore
NumChars == 2

\* workers of all characters together (10 a character in the program)
NumAllWorkers == 3

\* start dates the remote reports for the current activity
MaxStartDate == 3

\* calls of update_history and resets in one process
MaxHistoryCalls == 2
MaxLifeResets == 1

\* times one poller task writes and sends the status
MaxAbortPublishes == 2

-----------------------------------------------------------------------------
(* CompletedActivity *)

\* Option: None, or Some of a value
None == <<>>
Some(v) == <<v>>

\* no profile named
NoProfile == "none"

\* api::responses::CompletedActivity, the fields the pollers and the cache read
Activity(id, period, hash, modes, phase, started) ==
    [period |-> period, modes |-> modes, instance_id |-> id,
     activity_hash |-> hash, starting_phase_index |-> phase,
     activity_was_started_from_beginning |-> started]

RAID_ACTIVITY_MODE == 4
DUNGEON_ACTIVITY_MODE == 82
STRIKE_ACTIVITY_MODE == 18
LOSTSECTOR_ACTIVITY_MODE == 87

KNOWN_RAID_HASHES ==
    {"2122313384", "3213556450", "2693136600", "1042180643", "910380154",
     "3881495763", "1441982566", "1374392663", "2381413764", "107319834",
     "1541433876", "1044919065", "3817322389"}

KNOWN_DUNGEON_HASHES ==
    {"2032534090", "2823159265", "2582501063", "4078656646", "1077850348",
     "1262462921", "313828469", "300092127", "3834447244"}

is_known_raid_hash(activity_hash) == activity_hash \in KNOWN_RAID_HASHES

is_known_dungeon_hash(activity_hash) == activity_hash \in KNOWN_DUNGEON_HASHES

\* a raid completion as the history listing returns it: no PGCR fields yet
Raid(id, period) == Activity(id, period, "0", {RAID_ACTIVITY_MODE}, None, None)

\* a strike completion as the history listing returns it
Strike(id, period) == Activity(id, period, "0", {STRIKE_ACTIVITY_MODE}, None, None)

\* same id at two periods, same period under two ids
CacheUniverse == {Raid("A", 1), Raid("A", 2), Raid("B", 2)}

SeqsUpTo(S, n) == UNION {[1..k -> S] : k \in 0..n}

CacheLists == SeqsUpTo(CacheUniverse, MaxLen)

Profiles == {"p1", "p2"}

\* p1 is given every list of CacheLists; its sibling p2, whose entry the frame
\* conditions watch, the empty list and a list of one activity
ListsFor(p) ==
    IF p = "p1" THEN CacheLists ELSE SeqsUpTo({Raid("B", 2)}, Len(<<p>>))

Instants == {0, 1}

\* HashMap::get returning None
NoEntry == [absent |-> TRUE]

\* identity used by merge_activities
SameIdentity(a, b) == a.instance_id = b.instance_id /\ a.period = b.period

Identity(a) == <<a.instance_id, a.period>>

Range(s) == {s[i] : i \in 1..Len(s)}

-----------------------------------------------------------------------------
(* CacheManager *)

\* CacheManager::new
CacheManager_new ==
    [profiles |-> [p \in Profiles |-> NoEntry], version |-> CACHE_VERSION]

get_cached_activities(cm, p) == cm.profiles[p]

HasEntry(cm, p) == cm.profiles[p] # NoEntry

update_cache_dropping_stamp(cm, p, activities, t) ==
    [profiles |-> [cm.profiles EXCEPT ![p] =
        [activities    |-> activities,
         last_updated  |-> IF cm.profiles[p] = NoEntry THEN t
                           ELSE cm.profiles[p].last_updated,
         profile_id    |-> p,
         cache_version |-> CACHE_VERSION]],
     version |-> CACHE_VERSION]

\* CacheManager::update_cache, Utc::now() reading t
update_cache(cm, p, activities, t) ==
    [profiles |-> [cm.profiles EXCEPT ![p] =
        [activities    |-> activities,
         last_updated  |-> t,
         profile_id    |-> p,
         cache_version |-> CACHE_VERSION]],
     version |-> CACHE_VERSION]

\* the for loop of merge_activities: push every new activity no element of
\* all_activities (the pushed ones included) has the identity of
RECURSIVE MergeLoop(_, _)
MergeLoop(all, new) ==
    IF new = <<>> THEN all
    ELSE MergeLoop(
            IF \E i \in 1..Len(all) : SameIdentity(all[i], Head(new))
            THEN all ELSE Append(all, Head(new)),
            Tail(new))

\* x placed behind every element whose period is not smaller: what a stable
\* sort by b.period.cmp(&a.period) does with the next element
RECURSIVE InsertDesc(_, _)
InsertDesc(sorted, x) ==
    IF sorted = <<>> THEN <<x>>
    ELSE IF Head(sorted).period >= x.period
         THEN <<Head(sorted)>> \o InsertDesc(Tail(sorted), x)
         ELSE <<x>> \o sorted

RECURSIVE SortFrom(_, _)
SortFrom(sorted, rest) ==
    IF rest = <<>> THEN sorted
    ELSE SortFrom(InsertDesc(sorted, Head(rest)), Tail(rest))

\* Vec::sort_by(|a, b| b.period.cmp(&a.period)): stable, descending
sort_by_period_desc(s) == SortFrom(<<>>, s)

MergeList_no_sort(existing, new) == MergeLoop(existing, new)

\* the existing-profile branch of merge_activities, on the lists
MergeList(existing, new) == sort_by_period_desc(MergeLoop(existing, new))

\* CacheManager::merge_activities
merge_activities(cm, p, new_activities, t) ==
    IF cm.profiles[p] # NoEntry
    THEN [profiles |-> [cm.profiles EXCEPT ![p] =
            [activities    |-> MergeList(cm.profiles[p].activities, new_activities),
             last_updated  |-> t,
             profile_id    |-> cm.profiles[p].profile_id,
             cache_version |-> CACHE_VERSION]],
          version |-> CACHE_VERSION]
    ELSE update_cache(cm, p, new_activities, t)

\* CacheManager::has_new_activities
has_new_activities(cm, p, recent) ==
    IF cm.profiles[p] # NoEntry
    THEN LET cached == cm.profiles[p].activities IN
         IF cached = <<>> \/ recent = <<>> THEN recent # <<>>
         ELSE LET most_recent_cached == cached[1] IN
              \E i \in 1..Len(recent) :
                  \/ recent[i].period > most_recent_cached.period
                  \/ /\ recent[i].period = most_recent_cached.period
                     /\ recent[i].instance_id # most_recent_cached.instance_id
    ELSE recent # <<>>

\* CacheManager::remove_profile_cache
remove_profile_cache(cm, p) == [cm EXCEPT !.profiles[p] = NoEntry]

\* CacheManager::clear_cache
clear_cache(cm) == [cm EXCEPT !.profiles = [p \in Profiles |-> NoEntry]]

-----------------------------------------------------------------------------
(* The components at rest: what a specification of another component keeps *)

\* no operation yet on the store CacheManager::new built
NoOp == [p |-> NoProfile, name |-> "new", arg |-> <<>>, res |-> FALSE]

CacheIdle ==
    /\ cache = CacheManager_new
    /\ now = 0
    /\ op = NoOp

Unset == [kind |-> "none"]

NotLoaded == [res |-> Unset, saw |-> Unset]

LoadIdle ==
    /\ file = [kind |-> "missing"]
    /\ configDir = TRUE
    /\ loadRes = NotLoaded
    /\ managed = Unset
    /\ pcMain = "start"

EnrichIdle ==
    /\ acts = <<>>
    /\ acts0 = <<>>
    /\ pcEnrich = "idle"
    /\ fetch_list = <<>>
    /\ task = <<>>
    /\ joined = 0
    /\ permits = PgcrPermits
    /\ reqCount = <<>>
    /\ reqEver = 0
    /\ passes = 0

BulkIdle ==
    /\ remote = [pages |-> <<>>]
    /\ wpc = <<>>
    /\ wpage = <<>>
    /\ wpend = <<>>
    /\ wsaw = <<>>
    /\ next_page = 0
    /\ should_stop = FALSE
    /\ all_activities = <<>>
    /\ histPermits = HistoryPermits
    /\ requested = <<>>
    /\ anyError = FALSE
    /\ pcBulk = "workers"

\* PlayerDataStatus::default()
PlayerDataStatus_default == [last_update |-> None, error |-> None]

NoCycle == [phase |-> "none", res |-> "none", part |-> "none"]

\* lines 119-123: the CurrentActivity the task starts from; 0 stands for
\* DateTime::MIN_UTC
CurrentActivity_initial ==
    [activity_hash |-> 0, start_date |-> 0, activity_info |-> None]

\* PlayerDataPoller::default(): no task, the default status, nothing emitted
PollerIdle ==
    /\ pcPoller = "none"
    /\ status = PlayerDataStatus_default
    /\ published = None
    /\ count = 0
    /\ task_history = <<>>
    /\ selected_profile = None
    /\ lastCycle = NoCycle
    /\ ticks = 0
    /\ resets = 0
    /\ task_current = CurrentActivity_initial
    /\ sent = FALSE
    /\ sinceHistory = 0

HistIdle ==
    /\ pcHist = "idle"
    /\ cacheLock = "free"
    /\ hist_cache0 = CacheManager_new
    /\ hist_new = <<>>
    /\ hist_last = <<>>
    /\ hist_res = "none"

SnapIdle ==
    /\ container_lock = "free"
    /\ playerdata_lock = "free"
    /\ playerdata = "default"
    /\ pcQuery = <<>>
    /\ answer = <<>>
    /\ pcResetter = "idle"
    /\ pcTask = "none"
    /\ abort_pending = FALSE

RequestIdle ==
    /\ pcReq = "idle"
    /\ retry_count = 0
    /\ sends = 0
    /\ waits = <<>>
    /\ last_resp = <<>>
    /\ req_result = "pending"

FilterIdle ==
    /\ filt_activity = <<>>
    /\ filt_list = <<>>
    /\ filt_reset = 0
    /\ filt_verdict = <<>>
    /\ filt_kept = <<>>
    /\ filt_pushed = <<>>

WeeklyIdle ==
    /\ wk_t1 = 0
    /\ wk_t2 = 0
    /\ wk_b1 = <<>>
    /\ wk_b2 = <<>>

SaveIdle ==
    /\ liveTask = 0
    /\ saveLock = 0
    /\ pcSave = <<>>
    /\ savesLeft = <<>>
    /\ writes = {}
    /\ disk = 0
    /\ mem = 0
    /\ saveRes = <<>>
    /\ saveErr = <<>>

CharsIdle ==
    /\ chpc = <<>>
    /\ ch_next_page = <<>>
    /\ ch_should_stop = <<>>
    /\ sharedPermits = 0

CurrentIdle ==
    /\ pcCur = "idle"
    /\ cur_last = CurrentActivity_initial
    /\ cur_now = CurrentActivity_initial
    /\ cur_latest = None
    /\ cur_lookup = "none"
    /\ cur_res = "none"

LifeIdle ==
    /\ life_pc = "idle"
    /\ life_profile = "p1"
    /\ life_history = <<>>
    /\ bulk_started = <<>>
    /\ bulk_completed = <<>>
    /\ life_calls = 0
    /\ life_resets = 0

AbortIdle ==
    /\ ab_task = <<>>
    /\ ab_aborted = <<>>
    /\ ab_lock = "free"
    /\ ab_reset = "idle"
    /\ ab_status = 0
    /\ ab_log = <<>>
    /\ ab_left = <<>>

-----------------------------------------------------------------------------
(* CacheManager::load and its caller *)

\* a field of the document: missing, or present with a value
Absent == <<>>
Present(v) == <<v>>

\* #[serde(default)] on a u32 field
SerdeDefaultU32(field) == IF field = Absent THEN 0 ELSE field[1]

DocVersions ==
    {Absent, Present(CACHE_VERSION - 1), Present(CACHE_VERSION),
     Present(CACHE_VERSION + 1)}

\* a profile entry as an older or the current build wrote it
DocEntries ==
    [activities : ListsFor("p2"), last_updated : {0}, profile_id : Profiles,
     cache_version : {Absent, Present(CACHE_VERSION - 1), Present(CACHE_VERSION)}]

\* the states of activity_cache.json: not there, there but not readable as a
\* string, readable but no CacheManager document, or a document
FileStates ==
    {[kind |-> "missing"], [kind |-> "unreadable"], [kind |-> "unparsable"]}
    \cup {[profiles |-> ps, version |-> v, kind |-> "doc"] :
            v \in DocVersions,
            ps \in {f \in [Profiles -> DocEntries \cup {NoEntry}] :
                        \A p \in Profiles : f[p] # NoEntry => f[p].profile_id = p}}

\* serde_json::from_str::<CacheManager> on a document
Deserialize(doc) ==
    [profiles |-> [p \in Profiles |->
                     IF doc.profiles[p] = NoEntry THEN NoEntry
                     ELSE [doc.profiles[p] EXCEPT
                             !.cache_version = SerdeDefaultU32(@)]],
     version  |-> SerdeDefaultU32(doc.version)]

Ok(store)  == [kind |-> "ok", store |-> store]
Err(why)   == [kind |-> "err", why |-> why]

load_keeping_every_profile(f, dir) ==
    IF ~dir THEN Err("no config directory")
    ELSE IF f.kind = "missing" THEN Ok(CacheManager_new)
    ELSE IF f.kind = "unreadable" THEN Err("read_to_string")
    ELSE IF f.kind = "unparsable" THEN Ok(CacheManager_new)
    ELSE LET c == Deserialize(f) IN
         IF c.version # CACHE_VERSION THEN Ok(CacheManager_new) ELSE Ok(c)

load_failing_on_parse(f, dir) ==
    IF ~dir THEN Err("no config directory")
    ELSE IF f.kind = "missing" THEN Ok(CacheManager_new)
    ELSE IF f.kind = "unreadable" THEN Err("read_to_string")
    ELSE IF f.kind = "unparsable" THEN Err("from_str")
    ELSE LET c == Deserialize(f) IN
         IF c.version # CACHE_VERSION THEN Ok(CacheManager_new)
         ELSE Ok([c EXCEPT !.profiles =
                    [p \in Profiles |->
                        IF c.profiles[p] # NoEntry
                           /\ c.profiles[p].cache_version # CACHE_VERSION
                        THEN NoEntry ELSE c.profiles[p]]])

\* CacheManager::load: the Result it returns
load(f, dir) ==
    IF ~dir THEN Err("no config directory")
    ELSE IF f.kind = "missing" THEN Ok(CacheManager_new)
    ELSE IF f.kind = "unreadable" THEN Err("read_to_string")
    ELSE IF f.kind = "unparsable" THEN Ok(CacheManager_new)
    ELSE LET c == Deserialize(f) IN
         IF c.version # CACHE_VERSION THEN Ok(CacheManager_new)
         ELSE Ok([c EXCEPT !.profiles =
                    [p \in Profiles |->
                        IF c.profiles[p] # NoEntry
                           /\ c.profiles[p].cache_version # CACHE_VERSION
                        THEN NoEntry ELSE c.profiles[p]]])

\* whether load calls fs::remove_file on the document
LoadRemovesFile(f, dir) ==
    /\ dir
    /\ \/ f.kind = "unparsable"
       \/ f.kind = "doc" /\ Deserialize(f).version # CACHE_VERSION

InitLoad ==
    /\ file \in FileStates
    /\ configDir \in BOOLEAN
    /\ loadRes = NotLoaded
    /\ managed = Unset
    /\ pcMain = "start"
    /\ CacheIdle
    /\ EnrichIdle
    /\ BulkIdle
    /\ PollerIdle
    /\ HistIdle
    /\ SnapIdle
    /\ RequestIdle
    /\ FilterIdle
    /\ WeeklyIdle
    /\ SaveIdle
    /\ CharsIdle
    /\ CurrentIdle
    /\ LifeIdle
    /\ AbortIdle

\* main: CacheManager::load().await; remove_file may fail, which load ignores
Load(removed) ==
    /\ pcMain = "start"
    /\ loadRes' = [res |-> load(file, configDir), saw |-> file]
    /\ file' = IF LoadRemovesFile(file, configDir) /\ removed
               THEN [kind |-> "missing"] ELSE file
    /\ pcMain' = "loaded"
    /\ UNCHANGED <<configDir, managed>>
    /\ UNCHANGED notLoad

\* main: the match on load's Result, then .manage(CacheContainer(..))
Manage ==
    /\ pcMain = "loaded"
    /\ managed' = IF loadRes.res.kind = "ok" THEN loadRes.res.store
                  ELSE CacheManager_new
    /\ pcMain' = "managed"
    /\ UNCHANGED <<file, configDir, loadRes>>
    /\ UNCHANGED notLoad

NextLoad ==
    \/ \E removed \in BOOLEAN : Load(removed)
    \/ Manage

SpecLoad == InitLoad /\ [][NextLoad]_vars

-----------------------------------------------------------------------------
(* The staleness decisions *)

CACHE_STALE_MINUTES == 5

\* api/requests.rs, make_request: the retries of a request
max_retries == 3

\* pollers/playerdata.rs, get_destiny_weekly_reset_time: and_hms_opt(17, 0, 0)
RESET_HOUR == 17

\* Rust's integer division, which truncates toward zero
TruncDiv(a, b) == IF a >= 0 THEN a \div b ELSE -((-a) \div b)

\* chrono::Duration::num_minutes and num_hours of a duration in seconds
num_minutes(age) == TruncDiv(age, 60)
num_hours(age) == TruncDiv(age, 60 * 60)

\* Utc::now().signed_duration_since(cache.last_updated)
CacheAge(cm, p, t) == t - cm.profiles[p].last_updated

\* CacheManager::should_refresh_cache
should_refresh_cache(cm, p, max_age_hours, t) ==
    IF cm.profiles[p] # NoEntry
    THEN num_hours(CacheAge(cm, p, t)) >= max_age_hours
    ELSE TRUE

should_check_updates_a_minute_early(cm, p, t) ==
    num_minutes(CacheAge(cm, p, t)) >= 4

\* update_history: let should_check_updates = cache_age.num_minutes() >= 5
should_check_updates(cm, p, t) == num_minutes(CacheAge(cm, p, t)) >= 5

Minutes(n) == n * 60

\* clock readings around the four- and five-minute and the five-hour marks
StaleInstants ==
    {0, Minutes(4), Minutes(5) - 1, Minutes(5), Minutes(5) + 1, Minutes(6),
     Minutes(60 * 5) - 1, Minutes(60 * 5)}

\* p1 has an entry stamped at some instant, p2 has none; the clock may be
\* behind the stamp (the system clock was set back)
InitStale ==
    /\ \E t \in StaleInstants : cache = update_cache(CacheManager_new, "p1", <<>>, t)
    /\ now \in StaleInstants
    /\ op = NoOp
    /\ LoadIdle
    /\ EnrichIdle
    /\ BulkIdle
    /\ PollerIdle
    /\ HistIdle
    /\ SnapIdle
    /\ RequestIdle
    /\ FilterIdle
    /\ WeeklyIdle
    /\ SaveIdle
    /\ CharsIdle
    /\ CurrentIdle
    /\ LifeIdle
    /\ AbortIdle

ClockAdvances ==
    /\ \E t \in StaleInstants : t > now /\ now' = t
    /\ UNCHANGED <<cache, op>>
    /\ UNCHANGED notCache

ShouldRefreshCache(p, max_age_hours) ==
    /\ op' = [p |-> p, name |-> "should_refresh_cache",
              arg |-> [age |-> IF HasEntry(cache, p) THEN CacheAge(cache, p, now)
                               ELSE 0,
                       max_age |-> max_age_hours],
              res |-> should_refresh_cache(cache, p, max_age_hours, now)]
    /\ UNCHANGED <<cache, now>>
    /\ UNCHANGED notCache

\* the staleness check update_history makes on the entry it found
ShouldCheckUpdates(p) ==
    /\ HasEntry(cache, p)
    /\ op' = [p |-> p, name |-> "should_check_updates",
              arg |-> [age |-> CacheAge(cache, p, now), max_age |-> 5],
              res |-> should_check_updates(cache, p, now)]
    /\ UNCHANGED <<cache, now>>
    /\ UNCHANGED notCache

NextStale ==
    \/ ClockAdvances
    \/ \E p \in Profiles, h \in {0, 1, CACHE_STALE_MINUTES} : ShouldRefreshCache(p, h)
    \/ \E p \in Profiles : ShouldCheckUpdates(p)

SpecStale == InitStale /\ [][NextStale]_vars

-----------------------------------------------------------------------------
(* fetch_pgcrs_for_activities *)

\* the two fields a post game carnage report carries; either may be null
PgcrValues ==
    {[starting_phase_index |-> Some(0),
      activity_was_started_from_beginning |-> Some(TRUE)],
     [starting_phase_index |-> None,
      activity_was_started_from_beginning |-> Some(FALSE)],
     [starting_phase_index |-> None,
      activity_was_started_from_beginning |-> None]}

Enriched(a, pgcr) ==
    [a EXCEPT !.starting_phase_index = pgcr.starting_phase_index,
              !.activity_was_started_from_beginning =
                    pgcr.activity_was_started_from_beginning]

\* activities as the cache or the history listing hands them over
EnrichUniverse ==
    {Raid("A", 2), Raid("B", 1)}
    \cup {Enriched(Raid("A", 2), v) : v \in PgcrValues}

EnrichLists == SeqsUpTo(EnrichUniverse, MaxEnrichLen)

needs_pgcr_by_phase(a) == a.starting_phase_index = None

\* .filter(|a| a.activity_was_started_from_beginning.is_none())
needs_pgcr(a) == a.activity_was_started_from_beginning = None

\* the indices of s that satisfy needs_pgcr, ascending: fetch_list
RECURSIVE FetchIndices(_, _)
FetchIndices(s, i) ==
    IF i > Len(s) THEN <<>>
    ELSE (IF needs_pgcr(s[i]) THEN <<i>> ELSE <<>>) \o FetchIndices(s, i + 1)

Waiting  == [st |-> "waiting"]
InFlight == [st |-> "inflight"]
Failed   == [st |-> "failed"]
Fetched(v) == [pgcr |-> v, st |-> "ok"]

InitEnrich ==
    /\ acts \in EnrichLists
    /\ acts0 = acts
    /\ pcEnrich = "idle"
    /\ fetch_list = <<>>
    /\ task = <<>>
    /\ joined = 0
    /\ permits = PgcrPermits
    /\ reqCount = [i \in 1..Len(acts) |-> 0]
    /\ reqEver = 0
    /\ passes = 0
    /\ CacheIdle
    /\ LoadIdle
    /\ BulkIdle
    /\ PollerIdle
    /\ HistIdle
    /\ SnapIdle
    /\ RequestIdle
    /\ FilterIdle
    /\ WeeklyIdle
    /\ SaveIdle
    /\ CharsIdle
    /\ CurrentIdle
    /\ LifeIdle
    /\ AbortIdle

\* the call: count, early return, fetch_list, one spawned task per element
\* and a fresh semaphore
StartEnrich ==
    /\ pcEnrich \in {"idle", "returned"}
    /\ passes < MaxPasses
    /\ passes' = passes + 1
    /\ acts0' = acts
    /\ reqCount' = [i \in 1..Len(acts) |-> 0]
    /\ fetch_list' = FetchIndices(acts, 1)
    /\ task' = [k \in 1..Len(fetch_list') |-> Waiting]
    /\ joined' = 0
    /\ permits' = PgcrPermits
    /\ pcEnrich' = IF Len(fetch_list') = 0 THEN "returned" ELSE "running"
    /\ UNCHANGED <<acts, reqEver>>
    /\ UNCHANGED notEnrich

AcquireAndRequest_without_permit(k) ==
    /\ pcEnrich = "running"
    /\ task[k] = Waiting
    /\ permits' = IF permits > 0 THEN permits - 1 ELSE 0
    /\ task' = [task EXCEPT ![k] = InFlight]
    /\ reqCount' = [reqCount EXCEPT ![fetch_list[k]] = @ + 1]
    /\ reqEver' = reqEver + 1
    /\ UNCHANGED <<acts, acts0, pcEnrich, fetch_list, joined, passes>>
    /\ UNCHANGED notEnrich

\* a task gets its permit and calls Api::get_pgcr
AcquireAndRequest(k) ==
    /\ pcEnrich = "running"
    /\ task[k] = Waiting
    /\ permits > 0
    /\ permits' = permits - 1
    /\ task' = [task EXCEPT ![k] = InFlight]
    /\ reqCount' = [reqCount EXCEPT ![fetch_list[k]] = @ + 1]
    /\ reqEver' = reqEver + 1
    /\ UNCHANGED <<acts, acts0, pcEnrich, fetch_list, joined, passes>>
    /\ UNCHANGED notEnrich

\* Api::get_pgcr returns; the task ends and drops its permit
PgcrReturns(k, result) ==
    /\ pcEnrich = "running"
    /\ task[k] = InFlight
    /\ task' = [task EXCEPT ![k] = result]
    /\ permits' = permits + 1
    /\ UNCHANGED <<acts, acts0, pcEnrich, fetch_list, joined, reqCount, reqEver,
                   passes>>
    /\ UNCHANGED notEnrich

JoinNext_aborting_on_failure ==
    /\ pcEnrich = "running"
    /\ joined < Len(fetch_list)
    /\ task[joined + 1].st \in {"ok", "failed"}
    /\ joined' = IF task[joined + 1].st = "ok" THEN joined + 1 ELSE Len(fetch_list)
    /\ acts' = IF task[joined + 1].st = "ok"
               THEN [acts EXCEPT ![fetch_list[joined + 1]] =
                        Enriched(@, task[joined + 1].pgcr)]
               ELSE acts
    /\ UNCHANGED <<acts0, pcEnrich, fetch_list, task, permits, reqCount, reqEver,
                   passes>>
    /\ UNCHANGED notEnrich

\* the final loop awaits the next handle and patches the activity it names
JoinNext ==
    /\ pcEnrich = "running"
    /\ joined < Len(fetch_list)
    /\ task[joined + 1].st \in {"ok", "failed"}
    /\ joined' = joined + 1
    /\ acts' = IF task[joined + 1].st = "ok"
               THEN [acts EXCEPT ![fetch_list[joined + 1]] =
                        Enriched(@, task[joined + 1].pgcr)]
               ELSE acts
    /\ UNCHANGED <<acts0, pcEnrich, fetch_list, task, permits, reqCount, reqEver,
                   passes>>
    /\ UNCHANGED notEnrich

EnrichReturns ==
    /\ pcEnrich = "running"
    /\ joined = Len(fetch_list)
    /\ pcEnrich' = "returned"
    /\ UNCHANGED <<acts, acts0, fetch_list, task, joined, permits, reqCount,
                   reqEver, passes>>
    /\ UNCHANGED notEnrich

NextEnrich ==
    \/ StartEnrich
    \/ \E k \in 1..Len(fetch_list) : AcquireAndRequest(k)
    \/ \E k \in 1..Len(fetch_list) : \E v \in PgcrValues : PgcrReturns(k, Fetched(v))
    \/ \E k \in 1..Len(fetch_list) : PgcrReturns(k, Failed)
    \/ JoinNext
    \/ EnrichReturns

SpecEnrich == InitEnrich /\ [][NextEnrich]_vars

\* the semaphore hands its permits out in the order of the requests, every
\* request is answered, and the runtime runs every task that can go on
SpecEnrichFair == SpecEnrich /\ WF_vars(NextEnrich)

-----------------------------------------------------------------------------
(* The activity-type filter the page workers apply *)

HasMode(activity, mode) == \E m \in activity.modes : m = mode

worker_retains_without_lost_sectors(activity, weekly_reset) ==
    LET is_raid_or_dungeon ==
            \/ HasMode(activity, RAID_ACTIVITY_MODE)
            \/ HasMode(activity, DUNGEON_ACTIVITY_MODE)
            \/ is_known_raid_hash(activity.activity_hash)
            \/ is_known_dungeon_hash(activity.activity_hash)
        is_strike == HasMode(activity, STRIKE_ACTIVITY_MODE)
    IN  IF is_raid_or_dungeon THEN TRUE
        ELSE is_strike /\ activity.period >= weekly_reset

\* lines 655-672: whether a worker pushes the activity
worker_retains(activity, weekly_reset) ==
    LET is_raid_by_mode    == HasMode(activity, RAID_ACTIVITY_MODE)
        is_dungeon_by_mode == HasMode(activity, DUNGEON_ACTIVITY_MODE)
        is_known_raid      == is_known_raid_hash(activity.activity_hash)
        is_known_dungeon   == is_known_dungeon_hash(activity.activity_hash)
        is_raid_or_dungeon == \/ is_raid_by_mode \/ is_dungeon_by_mode
                              \/ is_known_raid \/ is_known_dungeon
        is_strike          == HasMode(activity, STRIKE_ACTIVITY_MODE)
        is_lost_sector     == HasMode(activity, LOSTSECTOR_ACTIVITY_MODE)
        is_strike_or_lost_sector == is_strike \/ is_lost_sector
    IN  IF is_raid_or_dungeon THEN TRUE
        ELSE is_strike_or_lost_sector /\ activity.period >= weekly_reset

-----------------------------------------------------------------------------
(* fetch_all_activities_concurrent: the workers of one character *)

Workers == 1..NumWorkers

PageIds == <<"A", "B", "C", "D", "E">>

\* the remote lists newest first, one activity a page: page index i (from 0)
\* of a history of n pages holds the activity of period n - i.  The
\* histories are raids throughout, or have a strike as the newest or as the
\* oldest activity.
RemoteHistories ==
    UNION {{[i \in 1..n |-> <<IF i = strike
                              THEN Strike(PageIds[i], n - i + 1)
                              ELSE Raid(PageIds[i], n - i + 1)>>] :
                strike \in {0, 1, n}} :
           n \in 0..MaxRemotePages}

\* what the remote may answer for a page index, as the body
\* into_completed_activities returns: the page, and past the last page an
\* empty list or no list at all
RemoteBodies(r, page) ==
    IF page < Len(r.pages) THEN {Some(r.pages[page + 1])}
    ELSE {Some(<<>>), None}

\* lines 572-609: the shared state of one character's fetch and its workers
BulkStart ==
    /\ remote \in [pages : RemoteHistories]
    /\ wpc = [w \in Workers |-> "check"]
    /\ wpage = [w \in Workers |-> 0]
    /\ wpend = [w \in Workers |-> <<>>]
    /\ wsaw = [w \in Workers |-> "running"]
    /\ next_page = 0
    /\ should_stop = FALSE
    /\ all_activities = <<>>
    /\ histPermits = HistoryPermits
    /\ requested = [page \in 0..(MaxFetchPages - 1) |-> 0]
    /\ anyError = FALSE
    /\ pcBulk = "workers"

InitBulk ==
    /\ BulkStart
    /\ CacheIdle
    /\ LoadIdle
    /\ EnrichIdle
    /\ PollerIdle
    /\ HistIdle
    /\ SnapIdle
    /\ RequestIdle
    /\ FilterIdle
    /\ WeeklyIdle
    /\ SaveIdle
    /\ CharsIdle
    /\ CurrentIdle
    /\ LifeIdle
    /\ AbortIdle

WorkerKeeps == <<remote, pcBulk>>

\* if *should_stop.lock().await { break; }
CheckStop(w) ==
    /\ wpc[w] = "check"
    /\ wpc' = [wpc EXCEPT ![w] = IF should_stop THEN "done" ELSE "claim"]
    /\ wsaw' = [wsaw EXCEPT ![w] = IF should_stop THEN "stop" ELSE @]
    /\ UNCHANGED <<wpage, wpend, next_page, should_stop, all_activities,
                   histPermits, requested, anyError>>
    /\ UNCHANGED WorkerKeeps
    /\ UNCHANGED notBulk

ClaimPage_without_ceiling(w) ==
    /\ wpc[w] = "claim"
    /\ wpage' = [wpage EXCEPT ![w] = next_page]
    /\ next_page' = next_page + 1
    /\ wpc' = [wpc EXCEPT ![w] = "acquire"]
    /\ UNCHANGED <<wsaw, wpend, should_stop, all_activities, histPermits,
                   requested, anyError>>
    /\ UNCHANGED WorkerKeeps
    /\ UNCHANGED notBulk

\* the block that locks next_page: break at the ceiling, else take the index
ClaimPage(w) ==
    /\ wpc[w] = "claim"
    /\ IF next_page >= MaxFetchPages
       THEN /\ wpc' = [wpc EXCEPT ![w] = "done"]
            /\ wsaw' = [wsaw EXCEPT ![w] = "ceiling"]
            /\ UNCHANGED <<wpage, next_page>>
       ELSE /\ wpage' = [wpage EXCEPT ![w] = next_page]
            /\ next_page' = next_page + 1
            /\ wpc' = [wpc EXCEPT ![w] = "acquire"]
            /\ UNCHANGED wsaw
    /\ UNCHANGED <<wpend, should_stop, all_activities, histPermits, requested,
                   anyError>>
    /\ UNCHANGED WorkerKeeps
    /\ UNCHANGED notBulk

\* semaphore.acquire(), then the call of Api::get_activity_history
AcquireAndFetch(w) ==
    /\ wpc[w] = "acquire"
    /\ histPermits > 0
    /\ histPermits' = histPermits - 1
    /\ requested' = [requested EXCEPT ![wpage[w]] = @ + 1]
    /\ wpc' = [wpc EXCEPT ![w] = "inflight"]
    /\ UNCHANGED <<wpage, wpend, wsaw, next_page, should_stop, all_activities,
                   anyError>>
    /\ UNCHANGED WorkerKeeps
    /\ UNCHANGED notBulk

PageFails_without_flag(w) ==
    /\ wpc[w] = "inflight"
    /\ histPermits' = histPermits + 1
    /\ anyError' = TRUE
    /\ wpc' = [wpc EXCEPT ![w] = "done"]
    /\ wsaw' = [wsaw EXCEPT ![w] = "error"]
    /\ UNCHANGED <<wpage, wpend, next_page, should_stop, all_activities,
                   requested>>
    /\ UNCHANGED WorkerKeeps
    /\ UNCHANGED notBulk

\* Err(_): set the flag and break; the permit goes with the loop body
PageFails(w) ==
    /\ wpc[w] = "inflight"
    /\ histPermits' = histPermits + 1
    /\ should_stop' = TRUE
    /\ anyError' = TRUE
    /\ wpc' = [wpc EXCEPT ![w] = "done"]
    /\ wsaw' = [wsaw EXCEPT ![w] = "error"]
    /\ UNCHANGED <<wpage, wpend, next_page, all_activities, requested>>
    /\ UNCHANGED WorkerKeeps
    /\ UNCHANGED notBulk

PageArrives_missing_empty_test(w) ==
    /\ wpc[w] = "inflight"
    /\ histPermits' = histPermits + 1
    /\ \E body \in RemoteBodies(remote, wpage[w]) :
       IF body = None
       THEN /\ should_stop' = TRUE
            /\ wpc' = [wpc EXCEPT ![w] = "done"]
            /\ wsaw' = [wsaw EXCEPT ![w] = "end"]
            /\ UNCHANGED wpend
       ELSE /\ wpend' = [wpend EXCEPT ![w] = body[1]]
            /\ wpc' = [wpc EXCEPT ![w] = IF body[1] = <<>> THEN "check" ELSE "push"]
            /\ UNCHANGED <<should_stop, wsaw>>
    /\ UNCHANGED <<wpage, next_page, all_activities, requested, anyError>>
    /\ UNCHANGED WorkerKeeps
    /\ UNCHANGED notBulk

\* Ok(h): drop the permit; an absent or an empty body sets the flag and
\* breaks, any other body is filtered next
PageArrives(w) ==
    /\ wpc[w] = "inflight"
    /\ histPermits' = histPermits + 1
    /\ \E body \in RemoteBodies(remote, wpage[w]) :
       IF body = None \/ body = Some(<<>>)
       THEN /\ should_stop' = TRUE
            /\ wpc' = [wpc EXCEPT ![w] = "done"]
            /\ wsaw' = [wsaw EXCEPT ![w] = "end"]
            /\ UNCHANGED wpend
       ELSE /\ wpend' = [wpend EXCEPT ![w] = body[1]]
            /\ wpc' = [wpc EXCEPT ![w] = "push"]
            /\ UNCHANGED <<should_stop, wsaw>>
    /\ UNCHANGED <<wpage, next_page, all_activities, requested, anyError>>
    /\ UNCHANGED WorkerKeeps
    /\ UNCHANGED notBulk

FilterAndPush_unless_stopped(w) ==
    /\ wpc[w] = "push"
    /\ all_activities' = IF worker_retains(Head(wpend[w]), WeeklyReset) /\ ~should_stop
                         THEN Append(all_activities, Head(wpend[w]))
                         ELSE all_activities
    /\ wpend' = [wpend EXCEPT ![w] = Tail(@)]
    /\ wpc' = [wpc EXCEPT ![w] = IF Tail(wpend[w]) = <<>> THEN "check" ELSE "push"]
    /\ UNCHANGED <<wpage, wsaw, next_page, should_stop, histPermits, requested,
                   anyError>>
    /\ UNCHANGED WorkerKeeps
    /\ UNCHANGED notBulk

\* one turn of `for activity in activities`: push it if the filter keeps it;
\* after the last one the worker is back at the head of its loop
FilterAndPush(w) ==
    /\ wpc[w] = "push"
    /\ all_activities' = IF worker_retains(Head(wpend[w]), WeeklyReset)
                         THEN Append(all_activities, Head(wpend[w]))
                         ELSE all_activities
    /\ wpend' = [wpend EXCEPT ![w] = Tail(@)]
    /\ wpc' = [wpc EXCEPT ![w] = IF Tail(wpend[w]) = <<>> THEN "check" ELSE "push"]
    /\ UNCHANGED <<wpage, wsaw, next_page, should_stop, histPermits, requested,
                   anyError>>
    /\ UNCHANGED WorkerKeeps
    /\ UNCHANGED notBulk

AllWorkersDone == \A w \in Workers : wpc[w] = "done"

\* what fetch_pgcrs_for_activities may leave of a list: of the activities
\* that need a report any may stay as they are (their fetch failed), the
\* others carry the fields of the report the remote answers in this pass
EnrichOutcomes(list) ==
    {[i \in 1..Len(list) |->
         IF needs_pgcr(list[i]) /\ i \notin failed
         THEN Enriched(list[i], report) ELSE list[i]] :
       failed \in SUBSET (1..Len(list)), report \in PgcrValues}

CacheBulkResult_failing_on_error ==
    /\ pcBulk = "workers"
    /\ AllWorkersDone
    /\ IF anyError
       THEN /\ pcBulk' = "failed"
            /\ UNCHANGED <<all_activities, cache, op>>
       ELSE /\ \E enriched \in EnrichOutcomes(all_activities) :
                  /\ all_activities' = enriched
                  /\ cache' = update_cache(cache, "p1", enriched, now)
                  /\ op' = [p |-> "p1", name |-> "update_cache", arg |-> enriched,
                            res |-> FALSE]
            /\ pcBulk' = "cached"
    /\ UNCHANGED <<remote, wpc, wpage, wpend, wsaw, next_page, should_stop,
                   histPermits, requested, anyError, now>>
    /\ UNCHANGED notBulkCache

\* lines 698-726: the workers joined, the accumulator is taken, enriched and
\* written to the store under the profile id
CacheBulkResult ==
    /\ pcBulk = "workers"
    /\ AllWorkersDone
    /\ \E enriched \in EnrichOutcomes(all_activities) :
          /\ all_activities' = enriched
          /\ cache' = update_cache(cache, "p1", enriched, now)
          /\ op' = [p |-> "p1", name |-> "update_cache", arg |-> enriched,
                    res |-> FALSE]
    /\ pcBulk' = "cached"
    /\ UNCHANGED <<remote, wpc, wpage, wpend, wsaw, next_page, should_stop,
                   histPermits, requested, anyError, now>>
    /\ UNCHANGED notBulkCache

NextBulk ==
    \/ \E w \in Workers : CheckStop(w)
    \/ \E w \in Workers : ClaimPage(w)
    \/ \E w \in Workers : AcquireAndFetch(w)
    \/ \E w \in Workers : PageFails(w)
    \/ \E w \in Workers : PageArrives(w)
    \/ \E w \in Workers : FilterAndPush(w)
    \/ CacheBulkResult

\* the runtime keeps running every task that can take a step, and every
\* request is answered
SpecBulk == InitBulk /\ [][NextBulk]_vars /\ WF_vars(NextBulk)

-----------------------------------------------------------------------------
(* update_history *)

history_retains_strictly_after(activity, weekly_reset) ==
    LET is_raid_or_dungeon ==
            \/ HasMode(activity, RAID_ACTIVITY_MODE)
            \/ HasMode(activity, DUNGEON_ACTIVITY_MODE)
            \/ is_known_raid_hash(activity.activity_hash)
            \/ is_known_dungeon_hash(activity.activity_hash)
        is_strike_or_lost_sector ==
            \E m \in activity.modes :
                m = STRIKE_ACTIVITY_MODE \/ m = LOSTSECTOR_ACTIVITY_MODE
    IN  IF is_raid_or_dungeon THEN TRUE
        ELSE IF is_strike_or_lost_sector THEN activity.period > weekly_reset
        ELSE FALSE

\* lines 364-383: what update_history keeps of the cached list
history_retains(activity, weekly_reset) ==
    LET is_raid_by_mode    == HasMode(activity, RAID_ACTIVITY_MODE)
        is_dungeon_by_mode == HasMode(activity, DUNGEON_ACTIVITY_MODE)
        is_known_raid      == is_known_raid_hash(activity.activity_hash)
        is_known_dungeon   == is_known_dungeon_hash(activity.activity_hash)
        is_raid_or_dungeon == \/ is_raid_by_mode \/ is_dungeon_by_mode
                              \/ is_known_raid \/ is_known_dungeon
        is_strike_or_lost_sector ==
            \E m \in activity.modes :
                m = STRIKE_ACTIVITY_MODE \/ m = LOSTSECTOR_ACTIVITY_MODE
    IN  IF is_raid_or_dungeon THEN TRUE
        ELSE IF is_strike_or_lost_sector THEN activity.period >= weekly_reset
        ELSE FALSE

Retained(list, weekly_reset) ==
    LET keep(a) == history_retains(a, weekly_reset) IN SelectSeq(list, keep)

\* activities the remote lists for the profile while the poller runs
PollUniverse == {Raid("A", 1), Raid("B", 2), Strike("C", 1)}

PollLists == SeqsUpTo(PollUniverse, MaxPollLen)

\* a listing after fetch_pgcrs_for_activities has gone over it
EnrichedPollLists == UNION {EnrichOutcomes(l) : l \in PollLists}

\* what fetch_all_activities_concurrent and the second enrichment leave: the
\* workers pushed only what their filter keeps
BulkResults ==
    {l \in EnrichedPollLists :
        \A i \in 1..Len(l) : worker_retains(l[i], WeeklyReset)}

\* lines 390-405 and 428-444: Ok(false) if the caller's newest activity is
\* not below the newest of the result in CompletedActivity's order (either
\* way may come out when both lists have elements), else the sorted result
HistoryFinish(cm, all_kept, last_history) ==
    {[cache |-> cm, res |-> "ok_true", history |-> sort_by_period_desc(all_kept)]}
    \cup IF last_history # <<>> /\ all_kept # <<>>
         THEN {[cache |-> cm, res |-> "ok_false", history |-> last_history]}
         ELSE {}

\* update_history: every result the remote's answers allow, each with the
\* store and the caller's history it leaves
update_history(cm, p, t, last_history) ==
    LET failed   == [cache |-> cm, res |-> "err", history |-> last_history]
        kept(cm2) == Retained(cm2.profiles[p].activities, WeeklyReset)
    IN  {failed}  \* profile_info_source.get fails
        \cup
        IF HasEntry(cm, p)
        THEN IF should_check_updates(cm, p, t)
             THEN {failed}  \* the page-0 request fails
                  \cup UNION {
                     IF has_new_activities(cm, p, recent_activities)
                     THEN {failed}  \* a request of pages 0..4 fails
                          \cup UNION {
                             HistoryFinish(merge_activities(cm, p, new_activities, t),
                                           kept(merge_activities(cm, p, new_activities, t)),
                                           last_history) :
                               new_activities \in EnrichedPollLists}
                     ELSE HistoryFinish(cm, kept(cm), last_history) :
                       recent_activities \in PollLists}
             ELSE HistoryFinish(cm, kept(cm), last_history)
        ELSE UNION {HistoryFinish(update_cache(cm, p, all, t), all, last_history) :
                      all \in BulkResults}

-----------------------------------------------------------------------------
(* PlayerData and the outcome of a refresh cycle *)

PlayerData(current, history) ==
    [current_activity |-> current, activity_history |-> history]

Cycle(phase, part, res) == [phase |-> phase, res |-> res, part |-> part]

-----------------------------------------------------------------------------
(* update_current *)

\* the newest LatestCharacterActivity of the profile's characters
LatestActivities == [date_activity_started : {1, 2}, current_activity_hash : {0, 7}]

\* lines 252-288: set_characters, then the definition of the activity; the
\* lookup may fail after start_date has been written
LookupActivity(cur, latest) ==
    IF latest.current_activity_hash = 0
    THEN {[res |-> "ok_true", current |-> [cur EXCEPT !.activity_info = None]]}
    ELSE {[res |-> "ok_true", current |-> [cur EXCEPT !.activity_info = None]],
          [res |-> "err", current |-> cur],
          [res |-> "ok_true",
           current |-> [cur EXCEPT !.activity_hash = latest.current_activity_hash,
                                   !.activity_info = Some("named")]]}

\* update_current: every result the remote's answers allow, each with the
\* caller's CurrentActivity as the call leaves it
update_current(last_activity) ==
    {[res |-> "err", current |-> last_activity]}
    \cup UNION {
        IF last_activity.start_date < latest.date_activity_started
        THEN LookupActivity([last_activity EXCEPT
                                !.start_date = latest.date_activity_started],
                            latest)
        ELSE IF last_activity.start_date = latest.date_activity_started
        THEN IF last_activity.activity_info = None
             THEN {[res |-> "ok_false", current |-> last_activity]}
             ELSE IF last_activity.activity_hash = latest.current_activity_hash
             THEN {[res |-> "ok_false", current |-> last_activity]}
             ELSE LookupActivity(last_activity, latest)
        ELSE {[res |-> "ok_false", current |-> last_activity]} :
          latest \in LatestActivities}

-----------------------------------------------------------------------------
(* PlayerDataPoller: reset and the task it spawns *)

\* stores at start-up: no entry for the profile, or an entry stamped just now
\* or long enough ago to turn five minutes old while the poller runs
PollerStores ==
    {CacheManager_new}
    \cup {update_cache(CacheManager_new, "p1", l, t) :
            l \in PollLists, t \in {0, 20 - Minutes(5)}}

InitPoller ==
    /\ PollerIdle
    /\ cache \in PollerStores
    /\ now = 0
    /\ op = NoOp
    /\ LoadIdle
    /\ EnrichIdle
    /\ BulkIdle
    /\ HistIdle
    /\ SnapIdle
    /\ RequestIdle
    /\ FilterIdle
    /\ WeeklyIdle
    /\ SaveIdle
    /\ CharsIdle
    /\ CurrentIdle
    /\ LifeIdle
    /\ AbortIdle

PollerKeeps == <<selected_profile, ticks>>

\* send_data_update(&app_handle, lock.clone())
send_data_update ==
    /\ published' = Some(status')
    /\ sent' = TRUE

NothingSent ==
    /\ UNCHANGED published
    /\ sent' = FALSE

\* the configuration gets, or loses, its selected profile before the poller
\* is started
SelectProfile ==
    /\ pcPoller = "none"
    /\ resets = 0
    /\ selected_profile' = IF selected_profile = None THEN Some("p1") ELSE None
    /\ NothingSent
    /\ UNCHANGED <<pcPoller, status, count, task_history, lastCycle,
                   ticks, resets, task_current, sinceHistory>>
    /\ UNCHANGED cacheVars
    /\ UNCHANGED notPoller

\* PlayerDataPoller::reset: abort the task, publish the default status, spawn
Reset ==
    /\ resets < MaxResets
    /\ resets' = resets + 1
    /\ status' = PlayerDataStatus_default
    /\ send_data_update
    /\ pcPoller' = "spawned"
    /\ count' = 0
    /\ task_history' = <<>>
    /\ task_current' = CurrentActivity_initial
    /\ sinceHistory' = 0
    /\ lastCycle' = NoCycle
    /\ UNCHANGED PollerKeeps
    /\ UNCHANGED cacheVars
    /\ UNCHANGED notPoller

\* lines 88-101: no selected profile is an error, published, and the task's end
ReadProfile ==
    /\ pcPoller = "spawned"
    /\ IF selected_profile = None
       THEN /\ status' = [status EXCEPT !.error = Some("No profile set")]
            /\ send_data_update
            /\ pcPoller' = "exited"
       ELSE /\ pcPoller' = "profile_info"
            /\ UNCHANGED status
            /\ NothingSent
    /\ UNCHANGED <<count, task_history, lastCycle, resets, task_current,
                   sinceHistory>>
    /\ UNCHANGED PollerKeeps
    /\ UNCHANGED cacheVars
    /\ UNCHANGED notPoller

\* lines 103-117
GetProfileInfo(ok) ==
    /\ pcPoller = "profile_info"
    /\ IF ok
       THEN /\ pcPoller' = "bootstrap_current"
            /\ UNCHANGED <<status, lastCycle>>
            /\ NothingSent
       ELSE /\ status' = [status EXCEPT !.error = Some("Failed to get profile info")]
            /\ send_data_update
            /\ lastCycle' = Cycle("bootstrap", "profile_info", "err")
            /\ pcPoller' = "exited"
    /\ UNCHANGED <<count, task_history, resets, task_current, sinceHistory>>
    /\ UNCHANGED PollerKeeps
    /\ UNCHANGED cacheVars
    /\ UNCHANGED notPoller

BootstrapCurrent_going_on_after_failure ==
    /\ pcPoller = "bootstrap_current"
    /\ \E r \in update_current(task_current) :
       /\ task_current' = r.current
       /\ pcPoller' = "bootstrap_history"
       /\ UNCHANGED status
       /\ NothingSent
       /\ lastCycle' = IF r.res = "err"
                       THEN Cycle("bootstrap", "current", "err") ELSE lastCycle
    /\ UNCHANGED <<count, task_history, resets, sinceHistory>>
    /\ UNCHANGED PollerKeeps
    /\ UNCHANGED cacheVars
    /\ UNCHANGED notPoller

\* lines 126-129 and the Err arm of 144-148: the first update_current
BootstrapCurrent ==
    /\ pcPoller = "bootstrap_current"
    /\ \E r \in update_current(task_current) :
       /\ task_current' = r.current
       /\ IF r.res # "err"
          THEN /\ pcPoller' = "bootstrap_history"
               /\ UNCHANGED <<status, lastCycle>>
               /\ NothingSent
          ELSE /\ status' = [status EXCEPT !.error = Some("current")]
               /\ send_data_update
               /\ lastCycle' = Cycle("bootstrap", "current", "err")
               /\ pcPoller' = "exited"
    /\ UNCHANGED <<count, task_history, resets, sinceHistory>>
    /\ UNCHANGED PollerKeeps
    /\ UNCHANGED cacheVars
    /\ UNCHANGED notPoller

\* lines 127 and 131-150: the first update_history and the match on the result
BootstrapHistory ==
    /\ pcPoller = "bootstrap_history"
    /\ \E r \in update_history(cache, "p1", now, task_history) :
       /\ cache' = r.cache
       /\ task_history' = r.history
       /\ lastCycle' = Cycle("bootstrap", "history", r.res)
       /\ IF r.res = "err"
          THEN /\ status' = [status EXCEPT !.error = Some("history")]
               /\ pcPoller' = "exited"
          ELSE /\ status' = [status EXCEPT !.last_update =
                                Some(PlayerData(task_current, r.history))]
               /\ pcPoller' = "sleeping"
       /\ send_data_update
    /\ UNCHANGED <<count, resets, task_current, sinceHistory, now, op>>
    /\ UNCHANGED PollerKeeps
    /\ UNCHANGED notPoller

\* lines 154-169: the sleep is over; clone last_update and pick the refresh
WakeWithin(max_ticks) ==
    /\ pcPoller = "sleeping"
    /\ ticks < max_ticks
    /\ ticks' = ticks + 1
    /\ now' = now + 5
    /\ IF status.last_update = None
       THEN UNCHANGED <<pcPoller, count, task_history, task_current>>
       ELSE /\ task_history' = status.last_update[1].activity_history
            /\ task_current' = status.last_update[1].current_activity
            /\ IF count < 5
               THEN /\ pcPoller' = "steady_current"
                    /\ UNCHANGED count
               ELSE /\ pcPoller' = "steady_history"
                    /\ count' = 0
    /\ NothingSent
    /\ UNCHANGED <<status, lastCycle, selected_profile, resets, sinceHistory>>
    /\ UNCHANGED <<cache, op>>
    /\ UNCHANGED notPoller

Wake == WakeWithin(MaxTicks)

AfterTick_publishing_unchanged(part, res, data) ==
    /\ lastCycle' = Cycle("steady", part, res)
    /\ IF res = "ok_true"
       THEN /\ status' = [last_update |-> Some(data), error |-> None]
            /\ send_data_update
       ELSE IF res = "err"
       THEN /\ status' = [status EXCEPT !.error = Some(part)]
            /\ send_data_update
       ELSE /\ UNCHANGED status
            /\ send_data_update
    /\ count' = count + 1
    /\ sinceHistory' = IF part = "current" THEN sinceHistory + 1 ELSE 0
    /\ pcPoller' = "sleeping"

AfterTick_storing_failed_copy(part, res, data) ==
    /\ lastCycle' = Cycle("steady", part, res)
    /\ IF res = "ok_true"
       THEN /\ status' = [last_update |-> Some(data), error |-> None]
            /\ send_data_update
       ELSE IF res = "err"
       THEN /\ status' = [last_update |-> Some(data), error |-> Some(part)]
            /\ send_data_update
       ELSE /\ UNCHANGED status
            /\ NothingSent
    /\ count' = count + 1
    /\ sinceHistory' = IF part = "current" THEN sinceHistory + 1 ELSE 0
    /\ pcPoller' = "sleeping"

\* lines 171-188 applied to a result and the working copy: Ok(true) publishes
\* the copy and clears the error, Err publishes the error, Ok(false)
\* publishes nothing
AfterTick(part, res, data) ==
    /\ lastCycle' = Cycle("steady", part, res)
    /\ IF res = "ok_true"
       THEN /\ status' = [last_update |-> Some(data), error |-> None]
            /\ send_data_update
       ELSE IF res = "err"
       THEN /\ status' = [status EXCEPT !.error = Some(part)]
            /\ send_data_update
       ELSE /\ UNCHANGED status
            /\ NothingSent
    /\ count' = count + 1
    /\ sinceHistory' = IF part = "current" THEN sinceHistory + 1 ELSE 0
    /\ pcPoller' = "sleeping"

\* a tick with count < 5: update_current
SteadyCurrent ==
    /\ pcPoller = "steady_current"
    /\ \E r \in update_current(task_current) :
       /\ task_current' = r.current
       /\ AfterTick("current", r.res, PlayerData(r.current, task_history))
    /\ UNCHANGED <<task_history, resets>>
    /\ UNCHANGED PollerKeeps
    /\ UNCHANGED cacheVars
    /\ UNCHANGED notPoller

\* a tick with count >= 5: update_history
SteadyHistory ==
    /\ pcPoller = "steady_history"
    /\ \E r \in update_history(cache, "p1", now, task_history) :
       /\ cache' = r.cache
       /\ task_history' = r.history
       /\ AfterTick("history", r.res, PlayerData(task_current, r.history))
    /\ UNCHANGED <<resets, task_current, now, op>>
    /\ UNCHANGED PollerKeeps
    /\ UNCHANGED notPoller

NextPoller ==
    \/ SelectProfile
    \/ Reset
    \/ ReadProfile
    \/ \E ok \in BOOLEAN : GetProfileInfo(ok)
    \/ BootstrapCurrent
    \/ BootstrapHistory
    \/ Wake
    \/ SteadyCurrent
    \/ SteadyHistory

SpecPoller == InitPoller /\ [][NextPoller]_vars

\* the same poller followed long enough to reach a second steady history
\* refresh
LongWake == WakeWithin(MaxLongTicks)

NextLongPoller ==
    \/ SelectProfile
    \/ Reset
    \/ ReadProfile
    \/ \E ok \in BOOLEAN : GetProfileInfo(ok)
    \/ BootstrapCurrent
    \/ BootstrapHistory
    \/ LongWake
    \/ SteadyCurrent
    \/ SteadyHistory

SpecLongPoller == InitPoller /\ [][NextLongPoller]_vars

-----------------------------------------------------------------------------
(* reset while the first cycle's bulk fetch is running *)

\* the task of the first reset is in its first update_history, which found
\* no entry for the profile and has spawned the workers of a character
InitCancel ==
    /\ BulkStart
    /\ CacheIdle
    /\ LoadIdle
    /\ EnrichIdle
    /\ pcPoller = "bootstrap_history"
    /\ status = PlayerDataStatus_default
    /\ published = Some(PlayerDataStatus_default)
    /\ count = 0
    /\ task_history = <<>>
    /\ selected_profile = Some("p1")
    /\ lastCycle = NoCycle
    /\ ticks = 0
    /\ resets = 1
    /\ task_current \in {r.current : r \in {x \in update_current(CurrentActivity_initial) :
                                               x.res # "err"}}
    /\ sent = FALSE
    /\ sinceHistory = 0
    /\ HistIdle
    /\ SnapIdle
    /\ RequestIdle
    /\ FilterIdle
    /\ WeeklyIdle
    /\ SaveIdle
    /\ CharsIdle
    /\ CurrentIdle
    /\ LifeIdle
    /\ AbortIdle

\* t.abort() has ended the task that spawned the workers
TreeAborted == resets > 1

\* the poller task awaits the handle of the character's task and goes on to
\* the store only while it has not been aborted
JoinAndCache ==
    /\ ~TreeAborted
    /\ pcPoller = "bootstrap_history"
    /\ CacheBulkResult

\* the workers were handed to the runtime by tokio::spawn and their handles
\* live in the aborted task: they run on whether or not it has been aborted;
\* the task of the second reset starts meanwhile
NextCancel ==
    \/ \E w \in Workers : CheckStop(w)
    \/ \E w \in Workers : ClaimPage(w)
    \/ \E w \in Workers : AcquireAndFetch(w)
    \/ \E w \in Workers : PageFails(w)
    \/ \E w \in Workers : PageArrives(w)
    \/ \E w \in Workers : FilterAndPush(w)
    \/ JoinAndCache
    \/ Reset
    \/ ReadProfile
    \/ \E ok \in BOOLEAN : GetProfileInfo(ok)
    \/ BootstrapCurrent

SpecCancel == InitCancel /\ [][NextCancel]_vars

-----------------------------------------------------------------------------
(* update_history, await by await *)

HistProfile == "p1"

\* the awaits of update_history that are requests to the remote
HistRequests == {"profile_info", "first_page", "pages", "pgcr", "bulk", "bulk_pgcr"}

RequestInFlight == pcHist \in HistRequests

InitHistory ==
    /\ cache \in PollerStores
    /\ now \in {0, 20}
    /\ op = NoOp
    /\ pcHist = "idle"
    /\ cacheLock = "free"
    /\ hist_cache0 = cache
    /\ hist_new = <<>>
    /\ hist_last \in {<<>>, <<Raid("A", 1)>>}
    /\ hist_res = "none"
    /\ LoadIdle
    /\ EnrichIdle
    /\ BulkIdle
    /\ PollerIdle
    /\ SnapIdle
    /\ RequestIdle
    /\ FilterIdle
    /\ WeeklyIdle
    /\ SaveIdle
    /\ CharsIdle
    /\ CurrentIdle
    /\ LifeIdle
    /\ AbortIdle

HistKeeps == <<hist_cache0, hist_last>>

\* line 299: the call begins with profile_info_source.get(profile)
HistCall ==
    /\ pcHist = "idle"
    /\ pcHist' = "profile_info"
    /\ UNCHANGED <<cacheLock, hist_new, hist_res>>
    /\ UNCHANGED HistKeeps
    /\ UNCHANGED cacheVars
    /\ UNCHANGED notHist

\* the `?` of line 299
ProfileInfoReturns(ok) ==
    /\ pcHist = "profile_info"
    /\ IF ok THEN pcHist' = "lock" /\ UNCHANGED hist_res
             ELSE pcHist' = "returned" /\ hist_res' = "err"
    /\ UNCHANGED <<cacheLock, hist_new>>
    /\ UNCHANGED HistKeeps
    /\ UNCHANGED cacheVars
    /\ UNCHANGED notHist

\* lines 305-321 and 409-419: the guard is taken and stays in cache_manager;
\* with an entry the age decides between the page-0 request and the cached
\* list, without one the bulk fetch starts
LockStore ==
    /\ pcHist = "lock"
    /\ cacheLock = "free"
    /\ cacheLock' = "update_history"
    /\ pcHist' = IF HasEntry(cache, HistProfile)
                 THEN IF should_check_updates(cache, HistProfile, now)
                      THEN "first_page" ELSE "finish"
                 ELSE "bulk"
    /\ UNCHANGED <<hist_new, hist_res>>
    /\ UNCHANGED HistKeeps
    /\ UNCHANGED cacheVars
    /\ UNCHANGED notHist

\* a `?` inside the locked part: the guard is dropped with the frame
HistFails ==
    /\ pcHist' = "returned"
    /\ hist_res' = "err"
    /\ cacheLock' = "free"

FirstPageReturns_stamping_the_entry(resp) ==
    /\ pcHist = "first_page"
    /\ IF resp = None THEN HistFails /\ UNCHANGED cache
       ELSE /\ pcHist' = IF has_new_activities(cache, HistProfile, resp[1])
                         THEN "pages" ELSE "finish"
            /\ cache' = update_cache(cache, HistProfile,
                                     cache.profiles[HistProfile].activities, now)
            /\ UNCHANGED <<cacheLock, hist_res>>
    /\ UNCHANGED <<hist_new, now, op>>
    /\ UNCHANGED HistKeeps
    /\ UNCHANGED notHist

\* lines 321-328: the page-0 listing and has_new_activities
FirstPageReturns(resp) ==
    /\ pcHist = "first_page"
    /\ IF resp = None THEN HistFails
       ELSE /\ pcHist' = IF has_new_activities(cache, HistProfile, resp[1])
                         THEN "pages" ELSE "finish"
            /\ UNCHANGED <<cacheLock, hist_res>>
    /\ UNCHANGED hist_new
    /\ UNCHANGED HistKeeps
    /\ UNCHANGED cacheVars
    /\ UNCHANGED notHist

\* lines 333-344: the requests of pages 0..4
PagesReturn(resp) ==
    /\ pcHist = "pages"
    /\ IF resp = None THEN HistFails /\ UNCHANGED hist_new
       ELSE /\ hist_new' = resp[1]
            /\ pcHist' = "pgcr"
            /\ UNCHANGED <<cacheLock, hist_res>>
    /\ UNCHANGED HistKeeps
    /\ UNCHANGED cacheVars
    /\ UNCHANGED notHist

\* lines 346-349: the detail requests are through; merge
PgcrsReturn(enriched) ==
    /\ pcHist = "pgcr"
    /\ hist_new' = enriched
    /\ cache' = merge_activities(cache, HistProfile, enriched, now)
    /\ pcHist' = "finish"
    /\ UNCHANGED <<cacheLock, hist_res, now, op>>
    /\ UNCHANGED HistKeeps
    /\ UNCHANGED notHist

\* line 409: fetch_all_activities_concurrent is through: it has enriched the
\* list and written it to the store
BulkReturns(all) ==
    /\ pcHist = "bulk"
    /\ hist_new' = all
    /\ cache' = update_cache(cache, HistProfile, all, now)
    /\ pcHist' = "bulk_pgcr"
    /\ UNCHANGED <<cacheLock, hist_res, now, op>>
    /\ UNCHANGED HistKeeps
    /\ UNCHANGED notHist

\* lines 419-444: the second enrichment is through; update_cache, save,
\* compare, sort, return
BulkPgcrsReturn(enriched) ==
    /\ pcHist = "bulk_pgcr"
    /\ cache' = update_cache(cache, HistProfile, enriched, now)
    /\ \E r \in HistoryFinish(cache', enriched, hist_last) :
          /\ hist_res' = r.res
          /\ hist_new' = r.history
    /\ pcHist' = "returned"
    /\ cacheLock' = "free"
    /\ UNCHANGED <<now, op>>
    /\ UNCHANGED HistKeeps
    /\ UNCHANGED notHist

\* lines 359-405: retain, save, compare, sort, return
FinishCached ==
    /\ pcHist = "finish"
    /\ \E r \in HistoryFinish(cache,
                              Retained(cache.profiles[HistProfile].activities,
                                       WeeklyReset),
                              hist_last) :
          /\ hist_res' = r.res
          /\ hist_new' = r.history
    /\ pcHist' = "returned"
    /\ cacheLock' = "free"
    /\ UNCHANGED HistKeeps
    /\ UNCHANGED cacheVars
    /\ UNCHANGED notHist

NextHistory ==
    \/ HistCall
    \/ \E ok \in BOOLEAN : ProfileInfoReturns(ok)
    \/ LockStore
    \/ \E resp \in {None} \cup {Some(l) : l \in PollLists} : FirstPageReturns(resp)
    \/ \E resp \in {None} \cup {Some(l) : l \in PollLists} : PagesReturn(resp)
    \/ \E enriched \in EnrichOutcomes(hist_new) : PgcrsReturn(enriched)
    \/ \E all \in BulkResults : BulkReturns(all)
    \/ \E enriched \in EnrichOutcomes(hist_new) : BulkPgcrsReturn(enriched)
    \/ FinishCached

SpecHistory == InitHistory /\ [][NextHistory]_vars

-----------------------------------------------------------------------------
(* get_playerdata, reset and the poller task on the two mutexes *)

\* the callers of the get_playerdata command
Callers == 1..NumCallers

InitSnapshot ==
    /\ container_lock = "free"
    /\ playerdata_lock = "free"
    /\ playerdata = "default"
    /\ pcQuery = [c \in Callers |-> "idle"]
    /\ answer = [c \in Callers |-> "pending"]
    /\ pcResetter = "idle"
    /\ pcTask = "none"
    /\ abort_pending = FALSE
    /\ CacheIdle
    /\ LoadIdle
    /\ EnrichIdle
    /\ BulkIdle
    /\ PollerIdle
    /\ HistIdle
    /\ RequestIdle
    /\ FilterIdle
    /\ WeeklyIdle
    /\ SaveIdle
    /\ CharsIdle
    /\ CurrentIdle
    /\ LifeIdle
    /\ AbortIdle

\* main.rs 198: poller_container.0.lock().await; the guard is taken at once
\* when the mutex is free, and the command waits for it otherwise
QueryCall(c) ==
    /\ pcQuery[c] = "idle"
    /\ answer' = [answer EXCEPT ![c] = "pending"]
    /\ IF container_lock = "free"
       THEN /\ container_lock' = "query"
            /\ pcQuery' = [pcQuery EXCEPT ![c] = "holding"]
       ELSE /\ pcQuery' = [pcQuery EXCEPT ![c] = "waiting"]
            /\ UNCHANGED container_lock
    /\ UNCHANGED <<playerdata_lock, playerdata, pcResetter, pcTask, abort_pending>>
    /\ UNCHANGED notSnap

\* the container's mutex is handed to a command that had to wait
QueryResume(c) ==
    /\ pcQuery[c] = "waiting"
    /\ container_lock = "free"
    /\ container_lock' = "query"
    /\ pcQuery' = [pcQuery EXCEPT ![c] = "holding_late"]
    /\ UNCHANGED <<playerdata_lock, playerdata, answer, pcResetter, pcTask,
                   abort_pending>>
    /\ UNCHANGED notSnap

\* PlayerDataPoller::get_data: try_lock, a clone or None; then the command
\* returns and its guard on the container is dropped
get_data(c) ==
    /\ pcQuery[c] \in {"holding", "holding_late"}
    /\ answer' = [answer EXCEPT ![c] = IF playerdata_lock = "free"
                                       THEN playerdata
                                       ELSE "unavailable"]
    /\ container_lock' = "free"
    /\ pcQuery' = [pcQuery EXCEPT ![c] = "idle"]
    /\ UNCHANGED <<playerdata_lock, playerdata, pcResetter, pcTask, abort_pending>>
    /\ UNCHANGED notSnap

\* main.rs 118 and 390: poller_container.0.lock().await, kept over reset
ResetCall ==
    /\ pcResetter = "idle"
    /\ container_lock = "free"
    /\ container_lock' = "reset"
    /\ pcResetter' = "abort"
    /\ UNCHANGED <<playerdata_lock, playerdata, pcQuery, answer, pcTask,
                   abort_pending>>
    /\ UNCHANGED notSnap

\* lines 73-75: abort; a task inside its synchronous section under the
\* status mutex ends when it next yields
ResetAbort ==
    /\ pcResetter = "abort"
    /\ pcResetter' = "lock_playerdata"
    /\ IF pcTask = "publishing"
       THEN /\ abort_pending' = TRUE
            /\ UNCHANGED pcTask
       ELSE /\ pcTask' = "none"
            /\ UNCHANGED abort_pending
    /\ UNCHANGED <<container_lock, playerdata_lock, playerdata, pcQuery, answer>>
    /\ UNCHANGED notSnap

\* line 78: self.current_playerdata.lock().await
ResetLock ==
    /\ pcResetter = "lock_playerdata"
    /\ playerdata_lock = "free"
    /\ playerdata_lock' = "reset"
    /\ pcResetter' = "write"
    /\ UNCHANGED <<container_lock, playerdata, pcQuery, answer, pcTask,
                   abort_pending>>
    /\ UNCHANGED notSnap

\* lines 79-82: the default status, published, and the guard dropped
ResetWrite ==
    /\ pcResetter = "write"
    /\ playerdata' = "default"
    /\ playerdata_lock' = "free"
    /\ pcResetter' = "spawn"
    /\ UNCHANGED <<container_lock, pcQuery, answer, pcTask, abort_pending>>
    /\ UNCHANGED notSnap

\* lines 84-190 and the caller's end: the task is spawned, reset returns and
\* the caller drops its guard on the container
ResetReturn ==
    /\ pcResetter = "spawn"
    /\ pcTask' = "running"
    /\ container_lock' = "free"
    /\ pcResetter' = "idle"
    /\ UNCHANGED <<playerdata_lock, playerdata, pcQuery, answer, abort_pending>>
    /\ UNCHANGED notSnap

\* the task takes the status mutex to store a result (lines 132, 173, 180)
TaskLock ==
    /\ pcTask = "running"
    /\ playerdata_lock = "free"
    /\ playerdata_lock' = "task"
    /\ pcTask' = "publishing"
    /\ UNCHANGED <<container_lock, playerdata, pcQuery, answer, pcResetter,
                   abort_pending>>
    /\ UNCHANGED notSnap

\* the task has written and published; its guard is dropped
TaskUnlock ==
    /\ pcTask = "publishing"
    /\ playerdata' = "updated"
    /\ playerdata_lock' = "free"
    /\ pcTask' = IF abort_pending THEN "none" ELSE "running"
    /\ abort_pending' = FALSE
    /\ UNCHANGED <<container_lock, pcQuery, answer, pcResetter>>
    /\ UNCHANGED notSnap

NextSnapshot ==
    \/ \E c \in Callers : QueryCall(c)
    \/ \E c \in Callers : QueryResume(c)
    \/ \E c \in Callers : get_data(c)
    \/ ResetCall
    \/ ResetAbort
    \/ ResetLock
    \/ ResetWrite
    \/ ResetReturn
    \/ TaskLock
    \/ TaskUnlock

SpecSnapshot == InitSnapshot /\ [][NextSnapshot]_vars

-----------------------------------------------------------------------------
(* make_request: the retry loop and the unwrapping of the envelope *)

\* what one send can meet: whether a response came at all, its HTTP status,
\* whether its body could be read and parsed, the ErrorCode of the envelope
\* and whether the envelope carries a Response
Responses ==
    [sent : BOOLEAN, status_code : {200, 500, 503}, readable : BOOLEAN,
     parses : BOOLEAN, error_code : {1, 5}, has_response : BOOLEAN]

NoResponse ==
    [sent |-> FALSE, status_code |-> 200, readable |-> FALSE,
     parses |-> FALSE, error_code |-> 1, has_response |-> FALSE]

Pending == "pending"

unwrap_without_missing_payload(resp) ==
    IF ~resp.readable THEN "NetworkError"
    ELSE IF ~resp.parses THEN "DeserializeError"
    ELSE IF resp.error_code # 1 THEN "BungieError"
    ELSE "Ok"

\* lines 145-172 on a response whose status is not 503
unwrap(resp) ==
    IF ~resp.readable THEN "NetworkError"
    ELSE IF ~resp.parses THEN "DeserializeError"
    ELSE IF resp.error_code # 1 THEN "BungieError"
    ELSE IF ~resp.has_response THEN "ResponseMissing"
    ELSE "Ok"

InitRequest ==
    /\ pcReq = "idle"
    /\ retry_count = 0
    /\ sends = 0
    /\ waits = <<>>
    /\ last_resp = NoResponse
    /\ req_result = Pending
    /\ CacheIdle
    /\ LoadIdle
    /\ EnrichIdle
    /\ BulkIdle
    /\ PollerIdle
    /\ HistIdle
    /\ SnapIdle
    /\ FilterIdle
    /\ WeeklyIdle
    /\ SaveIdle
    /\ CharsIdle
    /\ CurrentIdle
    /\ LifeIdle
    /\ AbortIdle

\* make_request(req): make_request_with_retry(req, 3), retry_count = 0
make_request ==
    /\ pcReq \in {"idle", "done"}
    /\ pcReq' = "send"
    /\ retry_count' = 0
    /\ sends' = 0
    /\ waits' = <<>>
    /\ req_result' = Pending
    /\ UNCHANGED last_resp
    /\ UNCHANGED notReq

RetryOrFail_one_more_retry ==
    IF retry_count <= max_retries
    THEN /\ retry_count' = retry_count + 1
         /\ waits' = Append(waits, 2 ^ retry_count')
         /\ pcReq' = "sleeping"
         /\ UNCHANGED req_result
    ELSE /\ req_result' = "NetworkError"
         /\ pcReq' = "done"
         /\ UNCHANGED <<retry_count, waits>>

\* lines 132-143: a 503 is retried after 2^retry_count seconds, or is the end
RetryOrFail ==
    IF retry_count < max_retries
    THEN /\ retry_count' = retry_count + 1
         /\ waits' = Append(waits, 2 ^ retry_count')
         /\ pcReq' = "sleeping"
         /\ UNCHANGED req_result
    ELSE /\ req_result' = "NetworkError"
         /\ pcReq' = "done"
         /\ UNCHANGED <<retry_count, waits>>

\* one iteration of the loop, lines 106-173, up to its sleep or its return
Send(resp) ==
    /\ pcReq = "send"
    /\ sends' = sends + 1
    /\ last_resp' = resp
    /\ IF ~resp.sent
       THEN /\ req_result' = "NetworkError"
            /\ pcReq' = "done"
            /\ UNCHANGED <<retry_count, waits>>
       ELSE IF resp.status_code = 503
       THEN RetryOrFail
       ELSE /\ req_result' = unwrap(resp)
            /\ pcReq' = "done"
            /\ UNCHANGED <<retry_count, waits>>
    /\ UNCHANGED notReq

\* line 135: the sleep is over, continue
Resend ==
    /\ pcReq = "sleeping"
    /\ pcReq' = "send"
    /\ UNCHANGED <<retry_count, sends, waits, last_resp, req_result>>
    /\ UNCHANGED notReq

NextRequest ==
    \/ make_request
    \/ \E resp \in Responses : Send(resp)
    \/ Resend

\* a send ends with a response or an error, and a sleep ends
SpecRequest == InitRequest /\ [][NextRequest]_vars /\ WF_vars(NextRequest)

-----------------------------------------------------------------------------
(* The two copies of the keep/drop filter, applied to chosen inputs *)

\* mode tags an activity can carry: none, one of the four the filter names,
\* another one (5), another one next to a strike tag
FilterModes ==
    {{}, {RAID_ACTIVITY_MODE}, {DUNGEON_ACTIVITY_MODE}, {STRIKE_ACTIVITY_MODE},
     {LOSTSECTOR_ACTIVITY_MODE}, {5}, {5, STRIKE_ACTIVITY_MODE}}

\* an unlisted hash, a known raid hash, a known dungeon hash
FilterHashes == {"0", "2122313384", "2032534090"}

FilterPeriods == 1..MaxFilterPeriod

FilterUniverse ==
    {Activity("A", p, h, m, None, None) :
        p \in FilterPeriods, h \in FilterHashes, m \in FilterModes}

\* the activities of the lists: a raid, a strike before every boundary but
\* the first, a strike at or after every boundary, an activity of no interest
FilterListUniverse ==
    {Raid("A", 1), Strike("B", 1), Strike("C", MaxFilterPeriod),
     Activity("D", 1, "0", {5}, None, None)}

FilterLists == SeqsUpTo(FilterListUniverse, MaxFilterLen)

InitFilter ==
    /\ filt_activity \in FilterUniverse
    /\ filt_list \in FilterLists
    /\ filt_reset \in FilterPeriods
    /\ filt_verdict = None
    /\ filt_kept = None
    /\ filt_pushed = None
    /\ CacheIdle
    /\ LoadIdle
    /\ EnrichIdle
    /\ BulkIdle
    /\ PollerIdle
    /\ HistIdle
    /\ SnapIdle
    /\ RequestIdle
    /\ WeeklyIdle
    /\ SaveIdle
    /\ CharsIdle
    /\ CurrentIdle
    /\ LifeIdle
    /\ AbortIdle

FilterInputs == <<filt_activity, filt_list, filt_reset>>

\* both filters on one activity
Judge ==
    /\ filt_verdict = None
    /\ filt_verdict' = Some([history |-> history_retains(filt_activity, filt_reset),
                             worker  |-> worker_retains(filt_activity, filt_reset)])
    /\ UNCHANGED <<filt_kept, filt_pushed>>
    /\ UNCHANGED FilterInputs
    /\ UNCHANGED notFilter

\* lines 363-383: all_activities.retain(...)
Retain ==
    /\ filt_kept = None
    /\ filt_kept' = Some(Retained(filt_list, filt_reset))
    /\ UNCHANGED <<filt_verdict, filt_pushed>>
    /\ UNCHANGED FilterInputs
    /\ UNCHANGED notFilter

RECURSIVE PushKept(_, _, _)
\* lines 654-673: the worker's loop over a page, pushing what it keeps
PushKept(activities, pushed, weekly_reset) ==
    IF activities = <<>> THEN pushed
    ELSE PushKept(Tail(activities),
                  IF worker_retains(Head(activities), weekly_reset)
                  THEN Append(pushed, Head(activities))
                  ELSE pushed,
                  weekly_reset)

PushPage ==
    /\ filt_pushed = None
    /\ filt_pushed' = Some(PushKept(filt_list, <<>>, filt_reset))
    /\ UNCHANGED <<filt_verdict, filt_kept>>
    /\ UNCHANGED FilterInputs
    /\ UNCHANGED notFilter

NextFilter ==
    \/ Judge
    \/ Retain
    \/ PushPage

SpecFilter == InitFilter /\ [][NextFilter]_vars

-----------------------------------------------------------------------------
(* get_destiny_weekly_reset_time, on instants counted in hours *)

\* chrono::Duration::days(1), in hours
HoursPerDay == 24

\* instants from 1970-01-01 00:00 UTC on, in hours
WeeklyInstants == 0..(MaxDays * HoursPerDay - 1)

\* Weekday::num_days_from_monday of the day with this number; day 0, the
\* first of January 1970, was a Thursday
num_days_from_monday(day) == (day + 3) % 7

get_destiny_weekly_reset_time_same_day(date) ==
    LET reset_time == (date \div HoursPerDay) * HoursPerDay + RESET_HOUR
        days_since_tuesday ==
            (num_days_from_monday(reset_time \div HoursPerDay) + 5) % 7
    IN  reset_time - days_since_tuesday * HoursPerDay

\* lines 729-741
get_destiny_weekly_reset_time(date) ==
    LET at_reset_hour == (date \div HoursPerDay) * HoursPerDay + RESET_HOUR
        reset_time == IF date < at_reset_hour
                      THEN at_reset_hour - HoursPerDay
                      ELSE at_reset_hour
        days_since_tuesday ==
            (num_days_from_monday(reset_time \div HoursPerDay) + 5) % 7
    IN  reset_time - days_since_tuesday * HoursPerDay

InitWeekly ==
    /\ wk_t1 \in WeeklyInstants
    /\ wk_t2 \in {t \in WeeklyInstants : wk_t1 <= t}
    /\ wk_b1 = None
    /\ wk_b2 = None
    /\ CacheIdle
    /\ LoadIdle
    /\ EnrichIdle
    /\ BulkIdle
    /\ PollerIdle
    /\ HistIdle
    /\ SnapIdle
    /\ RequestIdle
    /\ FilterIdle
    /\ SaveIdle
    /\ CharsIdle
    /\ CurrentIdle
    /\ LifeIdle
    /\ AbortIdle

\* the boundary of the earlier instant
ResetTimeOfFirst ==
    /\ wk_b1 = None
    /\ wk_b1' = Some(get_destiny_weekly_reset_time(wk_t1))
    /\ UNCHANGED <<wk_t1, wk_t2, wk_b2>>
    /\ UNCHANGED notWeekly

\* the boundary of the later instant
ResetTimeOfSecond ==
    /\ wk_b2 = None
    /\ wk_b2' = Some(get_destiny_weekly_reset_time(wk_t2))
    /\ UNCHANGED <<wk_t1, wk_t2, wk_b1>>
    /\ UNCHANGED notWeekly

NextWeekly ==
    \/ ResetTimeOfFirst
    \/ ResetTimeOfSecond

SpecWeekly == InitWeekly /\ [][NextWeekly]_vars

-----------------------------------------------------------------------------
(* CacheManager::save as update_history calls it, across resets *)

\* the poller tasks, in the order in which reset spawns them
SaveTasks == 1..MaxSaveTasks

InitSave ==
    /\ liveTask = 0
    /\ saveLock = 0
    /\ pcSave = [t \in SaveTasks |-> "unborn"]
    /\ savesLeft = [t \in SaveTasks |-> 0]
    /\ writes = {}
    /\ disk = 0
    /\ mem = 0
    /\ saveRes = [t \in SaveTasks |-> "pending"]
    /\ saveErr = [t \in SaveTasks |-> FALSE]
    /\ CacheIdle
    /\ LoadIdle
    /\ EnrichIdle
    /\ BulkIdle
    /\ PollerIdle
    /\ HistIdle
    /\ SnapIdle
    /\ RequestIdle
    /\ FilterIdle
    /\ WeeklyIdle
    /\ CharsIdle
    /\ CurrentIdle
    /\ LifeIdle
    /\ AbortIdle

\* PlayerDataPoller::reset, lines 72-86: the task is aborted where it awaits,
\* its guard on the store is dropped with it, and the next task is spawned; a
\* write handed to the blocking pool by tokio::fs::write is not cancelled
ResetDuringSave ==
    /\ liveTask < MaxSaveTasks
    /\ liveTask' = liveTask + 1
    /\ pcSave' = [t \in SaveTasks |->
                    IF t = liveTask + 1 THEN "running"
                    ELSE IF t = liveTask /\ pcSave[t] \in {"running", "locked", "writing"}
                    THEN "aborted"
                    ELSE pcSave[t]]
    /\ saveLock' = IF saveLock = liveTask THEN 0 ELSE saveLock
    /\ UNCHANGED <<savesLeft, writes, disk, mem, saveRes, saveErr>>
    /\ UNCHANGED notSave

\* update_history, line 305: the store is locked; the cached path saves once
\* (line 385), the bulk path twice (lines 718 and 424), each time after the
\* store in memory has been brought up to date
LockForSave(t, saves) ==
    /\ pcSave[t] = "running"
    /\ saveLock = 0
    /\ saveLock' = t
    /\ pcSave' = [pcSave EXCEPT ![t] = "locked"]
    /\ savesLeft' = [savesLeft EXCEPT ![t] = saves]
    /\ saveRes' = [saveRes EXCEPT ![t] = "pending"]
    /\ saveErr' = [saveErr EXCEPT ![t] = FALSE]
    /\ UNCHANGED <<liveTask, writes, disk, mem>>
    /\ UNCHANGED notSave

\* cache.rs 84-92: the store is serialized and the write handed over; the
\* caller awaits it
StartSave(t) ==
    /\ pcSave[t] = "locked"
    /\ mem' = t
    /\ writes' = writes \cup {[task |-> t, content |-> t]}
    /\ pcSave' = [pcSave EXCEPT ![t] = "writing"]
    /\ UNCHANGED <<liveTask, saveLock, savesLeft, disk, saveRes, saveErr>>
    /\ UNCHANGED notSave

\* the write ends, with or without effect on the file; a caller still
\* awaiting it goes on: the error is logged and dropped (lines 385-388), and
\* after the last save update_history returns and drops its guard
WriteEnds(w, ok) ==
    /\ w \in writes
    /\ writes' = writes \ {w}
    /\ disk' = IF ok THEN w.content ELSE disk
    /\ IF pcSave[w.task] = "writing"
       THEN /\ saveErr' = [saveErr EXCEPT ![w.task] = @ \/ ~ok]
            /\ savesLeft' = [savesLeft EXCEPT ![w.task] = @ - 1]
            /\ IF savesLeft'[w.task] = 0
               THEN /\ pcSave' = [pcSave EXCEPT ![w.task] = "returned"]
                    /\ saveRes' = [saveRes EXCEPT ![w.task] = "ok"]
                    /\ saveLock' = 0
               ELSE /\ pcSave' = [pcSave EXCEPT ![w.task] = "locked"]
                    /\ UNCHANGED <<saveRes, saveLock>>
       ELSE UNCHANGED <<pcSave, savesLeft, saveRes, saveErr, saveLock>>
    /\ UNCHANGED <<liveTask, mem>>
    /\ UNCHANGED notSave

\* the steady loop of the task comes to its next history refresh
NextHistoryTick(t) ==
    /\ pcSave[t] = "returned"
    /\ pcSave' = [pcSave EXCEPT ![t] = "running"]
    /\ UNCHANGED <<liveTask, saveLock, savesLeft, writes, disk, mem, saveRes,
                   saveErr>>
    /\ UNCHANGED notSave

NextSave ==
    \/ ResetDuringSave
    \/ \E t \in SaveTasks, saves \in {1, 2} : LockForSave(t, saves)
    \/ \E t \in SaveTasks : StartSave(t)
    \/ \E w \in writes, ok \in BOOLEAN : WriteEnds(w, ok)
    \/ \E t \in SaveTasks : NextHistoryTick(t)

SpecSave == InitSave /\ [][NextSave]_vars

-----------------------------------------------------------------------------
(* fetch_all_activities_concurrent: the workers of several characters on *)
(* the one semaphore *)

Characters == 1..NumChars

\* the workers of all characters; worker w belongs to character CharOf(w)
AllWorkers == 1..NumAllWorkers

CharOf(w) == ((w - 1) % NumChars) + 1

InitChars ==
    /\ chpc = [w \in AllWorkers |-> "check"]
    /\ ch_next_page = [c \in Characters |-> 0]
    /\ ch_should_stop = [c \in Characters |-> FALSE]
    /\ sharedPermits = HistoryPermits
    /\ CacheIdle
    /\ LoadIdle
    /\ EnrichIdle
    /\ BulkIdle
    /\ PollerIdle
    /\ HistIdle
    /\ SnapIdle
    /\ RequestIdle
    /\ FilterIdle
    /\ WeeklyIdle
    /\ SaveIdle
    /\ CurrentIdle
    /\ LifeIdle
    /\ AbortIdle

\* if *should_stop.lock().await { break; }
CharCheckStop(w) ==
    /\ chpc[w] = "check"
    /\ chpc' = [chpc EXCEPT ![w] = IF ch_should_stop[CharOf(w)] THEN "done"
                                                              ELSE "claim"]
    /\ UNCHANGED <<ch_next_page, ch_should_stop, sharedPermits>>
    /\ UNCHANGED notChars

\* the block that locks the character's next_page
CharClaimPage(w) ==
    /\ chpc[w] = "claim"
    /\ IF ch_next_page[CharOf(w)] >= MaxFetchPages
       THEN /\ chpc' = [chpc EXCEPT ![w] = "done"]
            /\ UNCHANGED ch_next_page
       ELSE /\ ch_next_page' = [ch_next_page EXCEPT ![CharOf(w)] = @ + 1]
            /\ chpc' = [chpc EXCEPT ![w] = "acquire"]
    /\ UNCHANGED <<ch_should_stop, sharedPermits>>
    /\ UNCHANGED notChars

CharAcquire_without_permit(w) ==
    /\ chpc[w] = "acquire"
    /\ sharedPermits' = IF sharedPermits > 0 THEN sharedPermits - 1 ELSE 0
    /\ chpc' = [chpc EXCEPT ![w] = "inflight"]
    /\ UNCHANGED <<ch_next_page, ch_should_stop>>
    /\ UNCHANGED notChars

\* semaphore.acquire().await on the semaphore all characters share, then the
\* request
CharAcquire(w) ==
    /\ chpc[w] = "acquire"
    /\ sharedPermits > 0
    /\ sharedPermits' = sharedPermits - 1
    /\ chpc' = [chpc EXCEPT ![w] = "inflight"]
    /\ UNCHANGED <<ch_next_page, ch_should_stop>>
    /\ UNCHANGED notChars

\* the request is answered and the permit dropped: an error, an absent or an
\* empty body set the character's flag and end the worker, a page sends it
\* back to the head of its loop
CharPageReturns(w, answer_kind) ==
    /\ chpc[w] = "inflight"
    /\ sharedPermits' = sharedPermits + 1
    /\ IF answer_kind = "page"
       THEN /\ chpc' = [chpc EXCEPT ![w] = "check"]
            /\ UNCHANGED ch_should_stop
       ELSE /\ chpc' = [chpc EXCEPT ![w] = "done"]
            /\ ch_should_stop' = [ch_should_stop EXCEPT ![CharOf(w)] = TRUE]
    /\ UNCHANGED ch_next_page
    /\ UNCHANGED notChars

NextChars ==
    \/ \E w \in AllWorkers : CharCheckStop(w)
    \/ \E w \in AllWorkers : CharClaimPage(w)
    \/ \E w \in AllWorkers : CharAcquire(w)
    \/ \E w \in AllWorkers, k \in {"page", "end", "error"} : CharPageReturns(w, k)

SpecChars == InitChars /\ [][NextChars]_vars

-----------------------------------------------------------------------------
(* SpecCurrent: update_current called again and again on one CurrentActivity *)

\* what get_profile_activities may report as the newest character activity
CurrentUniverse ==
    [date_activity_started : 1..MaxStartDate, current_activity_hash : {0, 7, 9}]

\* what the activity_info_source may answer for a hash
LookupAnswers == {"missing", "error", "unnamed", "named"}

InitCurrent ==
    /\ pcCur = "idle"
    /\ cur_last = CurrentActivity_initial
    /\ cur_now = CurrentActivity_initial
    /\ cur_latest = None
    /\ cur_lookup = "none"
    /\ cur_res = "none"
    /\ CacheIdle
    /\ LoadIdle
    /\ EnrichIdle
    /\ BulkIdle
    /\ PollerIdle
    /\ HistIdle
    /\ SnapIdle
    /\ RequestIdle
    /\ FilterIdle
    /\ WeeklyIdle
    /\ SaveIdle
    /\ CharsIdle
    /\ LifeIdle
    /\ AbortIdle

\* the task calls update_current(&handle, &mut current, &profile)
CurrentCall ==
    /\ pcCur \in {"idle", "returned"}
    /\ pcCur' = "profile_activities"
    /\ cur_last' = cur_now
    /\ cur_latest' = None
    /\ cur_lookup' = "none"
    /\ cur_res' = "none"
    /\ UNCHANGED cur_now
    /\ UNCHANGED notCurrent

\* lines 252-255: if latest_activity.current_activity_hash == 0
AfterCompare(cur, latest) ==
    IF latest.current_activity_hash = 0
    THEN /\ cur_now' = [cur EXCEPT !.activity_info = None]
         /\ cur_res' = "ok_true"
         /\ pcCur' = "returned"
    ELSE /\ cur_now' = cur
         /\ cur_res' = "none"
         /\ pcCur' = "lookup"

ProfileActivitiesReturn_writing_older(resp) ==
    /\ pcCur = "profile_activities"
    /\ cur_latest' = resp
    /\ IF resp = None
       THEN /\ cur_res' = "err"
            /\ pcCur' = "returned"
            /\ UNCHANGED cur_now
       ELSE LET latest == resp[1]
            IN  IF cur_now.start_date = latest.date_activity_started
                THEN IF \/ cur_now.activity_info = None
                        \/ cur_now.activity_hash = latest.current_activity_hash
                     THEN /\ cur_res' = "ok_false"
                          /\ pcCur' = "returned"
                          /\ UNCHANGED cur_now
                     ELSE AfterCompare(cur_now, latest)
                ELSE AfterCompare(
                        [cur_now EXCEPT !.start_date = latest.date_activity_started],
                        latest)
    /\ UNCHANGED <<cur_last, cur_lookup>>
    /\ UNCHANGED notCurrent

\* lines 216-255: the answer of get_profile_activities (None: the request
\* failed, the profile is private or has no character), the comparison of the
\* start dates, and the test of the hash
ProfileActivitiesReturn(resp) ==
    /\ pcCur = "profile_activities"
    /\ cur_latest' = resp
    /\ IF resp = None
       THEN /\ cur_res' = "err"
            /\ pcCur' = "returned"
            /\ UNCHANGED cur_now
       ELSE LET latest == resp[1]
            IN  IF cur_now.start_date < latest.date_activity_started
                THEN AfterCompare(
                        [cur_now EXCEPT !.start_date = latest.date_activity_started],
                        latest)
                ELSE IF cur_now.start_date = latest.date_activity_started
                THEN IF \/ cur_now.activity_info = None
                        \/ cur_now.activity_hash = latest.current_activity_hash
                     THEN /\ cur_res' = "ok_false"
                          /\ pcCur' = "returned"
                          /\ UNCHANGED cur_now
                     ELSE AfterCompare(cur_now, latest)
                ELSE /\ cur_res' = "ok_false"
                     /\ pcCur' = "returned"
                     /\ UNCHANGED cur_now
    /\ UNCHANGED <<cur_last, cur_lookup>>
    /\ UNCHANGED notCurrent

\* lines 257-288: the answer of activity_info_source.get
LookupReturns(lookup_answer) ==
    /\ pcCur = "lookup"
    /\ cur_lookup' = lookup_answer
    /\ pcCur' = "returned"
    /\ IF lookup_answer = "error"
       THEN /\ cur_res' = "err"
            /\ UNCHANGED cur_now
       ELSE /\ cur_res' = "ok_true"
            /\ cur_now' =
                 IF lookup_answer = "named"
                 THEN [cur_now EXCEPT
                         !.activity_hash = cur_latest[1].current_activity_hash,
                         !.activity_info = Some("named")]
                 ELSE [cur_now EXCEPT !.activity_info = None]
    /\ UNCHANGED <<cur_last, cur_latest>>
    /\ UNCHANGED notCurrent

NextCurrent ==
    \/ CurrentCall
    \/ \E resp \in {None} \cup {Some(l) : l \in CurrentUniverse} :
          ProfileActivitiesReturn(resp)
    \/ \E lookup_answer \in LookupAnswers : LookupReturns(lookup_answer)

SpecCurrent == InitCurrent /\ [][NextCurrent]_vars

-----------------------------------------------------------------------------
(* SpecLifetime: the history updates of one process, with resets between *)
(* and during them                                                         *)

\* the store as start-up loaded it: empty, or with an entry of p1 stamped
\* just now or five minutes ago
LifeStores ==
    {CacheManager_new}
    \cup {update_cache(CacheManager_new, "p1", <<Raid("A", 1)>>, t) :
            t \in {now, now - Minutes(CACHE_STALE_MINUTES)}}

InitLifetime ==
    /\ now = 20
    /\ cache \in LifeStores
    /\ op = NoOp
    /\ life_pc = "idle"
    /\ life_profile \in Profiles
    /\ life_history = <<>>
    /\ bulk_started = [p \in Profiles |-> 0]
    /\ bulk_completed = [p \in Profiles |-> 0]
    /\ life_calls = 0
    /\ life_resets = 0
    /\ LoadIdle
    /\ EnrichIdle
    /\ BulkIdle
    /\ PollerIdle
    /\ HistIdle
    /\ SnapIdle
    /\ RequestIdle
    /\ FilterIdle
    /\ WeeklyIdle
    /\ SaveIdle
    /\ CharsIdle
    /\ CurrentIdle
    /\ AbortIdle

LifeCounters == <<bulk_started, bulk_completed>>

LifeCall_bulk_when_stale(info_ok) ==
    /\ life_pc = "idle"
    /\ life_calls < MaxHistoryCalls
    /\ life_calls' = life_calls + 1
    /\ IF ~info_ok
       THEN UNCHANGED <<life_pc, bulk_started>>
       ELSE IF /\ HasEntry(cache, life_profile)
               /\ ~should_check_updates(cache, life_profile, now)
       THEN /\ life_pc' = "incremental"
            /\ UNCHANGED bulk_started
       ELSE /\ life_pc' = "bulk"
            /\ bulk_started' = [bulk_started EXCEPT ![life_profile] = @ + 1]
    /\ UNCHANGED <<life_profile, life_history, bulk_completed, life_resets>>
    /\ UNCHANGED cacheVars
    /\ UNCHANGED notLife

\* update_history lines 299-309 and 409: profile info (its `?` ends the
\* call), the guard on the store, and the branch on get_cached_activities
LifeCall(info_ok) ==
    /\ life_pc = "idle"
    /\ life_calls < MaxHistoryCalls
    /\ life_calls' = life_calls + 1
    /\ IF ~info_ok
       THEN UNCHANGED <<life_pc, bulk_started>>
       ELSE IF HasEntry(cache, life_profile)
       THEN /\ life_pc' = "incremental"
            /\ UNCHANGED bulk_started
       ELSE /\ life_pc' = "bulk"
            /\ bulk_started' = [bulk_started EXCEPT ![life_profile] = @ + 1]
    /\ UNCHANGED <<life_profile, life_history, bulk_completed, life_resets>>
    /\ UNCHANGED cacheVars
    /\ UNCHANGED notLife

\* fetch_all_activities_concurrent lines 698-726: the workers are joined,
\* the result enriched and stored under the profile; always Ok
LifeBulkCached(all) ==
    /\ life_pc = "bulk"
    /\ cache' = update_cache(cache, life_profile, all, now)
    /\ life_history' = all
    /\ life_pc' = "bulk_pgcr"
    /\ UNCHANGED <<life_profile, life_calls, life_resets, now, op>>
    /\ UNCHANGED LifeCounters
    /\ UNCHANGED notLife

\* update_history lines 419-444: second enrichment, update_cache, save,
\* compare; the caller's history was empty or is replaced
LifeBulkReturns(enriched) ==
    /\ life_pc = "bulk_pgcr"
    /\ cache' = update_cache(cache, life_profile, enriched, now)
    /\ life_history' = sort_by_period_desc(enriched)
    /\ bulk_completed' = [bulk_completed EXCEPT ![life_profile] = @ + 1]
    /\ life_pc' = "idle"
    /\ UNCHANGED <<life_profile, life_calls, life_resets, bulk_started, now, op>>
    /\ UNCHANGED notLife

\* update_history lines 309-401 as a whole: any result of the cached branch
LifeIncrementalReturns ==
    /\ life_pc = "incremental"
    /\ \E r \in update_history(cache, life_profile, now, life_history) :
          /\ cache' = r.cache
          /\ life_history' = r.history
    /\ life_pc' = "idle"
    /\ UNCHANGED <<life_profile, life_calls, life_resets, now, op>>
    /\ UNCHANGED LifeCounters
    /\ UNCHANGED notLife

\* PlayerDataPoller::reset: the task is aborted wherever it stands, its guard
\* on the store goes with it, and the task of the next profile starts
LifeReset(p) ==
    /\ life_resets < MaxLifeResets
    /\ life_resets' = life_resets + 1
    /\ life_pc' = "idle"
    /\ life_profile' = p
    /\ life_history' = <<>>
    /\ UNCHANGED life_calls
    /\ UNCHANGED LifeCounters
    /\ UNCHANGED cacheVars
    /\ UNCHANGED notLife

NextLifetime ==
    \/ \E info_ok \in BOOLEAN : LifeCall(info_ok)
    \/ \E all \in BulkResults : LifeBulkCached(all)
    \/ \E enriched \in EnrichOutcomes(life_history) : LifeBulkReturns(enriched)
    \/ LifeIncrementalReturns
    \/ \E p \in Profiles : LifeReset(p)

SpecLifetime == InitLifetime /\ [][NextLifetime]_vars

-----------------------------------------------------------------------------
(* SpecAbort: reset against a poller task that is being polled *)

\* the task the reset aborts and the task it spawns
AbortTasks == {1, 2}

InitAbort ==
    /\ ab_task = [t \in AbortTasks |-> IF t = 1 THEN "suspended" ELSE "none"]
    /\ ab_aborted = [t \in AbortTasks |-> FALSE]
    /\ ab_lock = "free"
    /\ ab_reset = "idle"
    /\ ab_status = 1
    /\ ab_log = <<>>
    /\ ab_left = [t \in AbortTasks |-> MaxAbortPublishes]
    /\ CacheIdle
    /\ LoadIdle
    /\ EnrichIdle
    /\ BulkIdle
    /\ PollerIdle
    /\ HistIdle
    /\ SnapIdle
    /\ RequestIdle
    /\ FilterIdle
    /\ WeeklyIdle
    /\ SaveIdle
    /\ CharsIdle
    /\ CurrentIdle
    /\ LifeIdle

\* lines 126-129 and 155-169: the sleep or the request the task waited for
\* is over, or the mutex it waited for is free, and a worker thread polls
\* the task; it runs up to its next await that is not ready
TaskPolled(t) ==
    /\ \/ ab_task[t] = "suspended" /\ ab_left[t] > 0
       \/ ab_task[t] = "waiting" /\ ab_lock = "free"
    /\ ~ab_aborted[t]
    /\ ab_task' = [ab_task EXCEPT ![t] = "polled"]
    /\ UNCHANGED <<ab_aborted, ab_lock, ab_reset, ab_status, ab_log, ab_left>>
    /\ UNCHANGED notAbort

\* an aborted task that is not being polled is dropped by the runtime
TaskCancelled(t) ==
    /\ ab_task[t] \in {"suspended", "waiting"}
    /\ ab_aborted[t]
    /\ ab_task' = [ab_task EXCEPT ![t] = "gone"]
    /\ UNCHANGED <<ab_aborted, ab_lock, ab_reset, ab_status, ab_log, ab_left>>
    /\ UNCHANGED notAbort

\* lines 132, 173 and 180: playerdata_clone.lock().await; a free mutex is
\* taken within the same poll, a held one suspends the task
TaskLocks(t) ==
    /\ ab_task[t] = "polled"
    /\ IF ab_lock = "free"
       THEN /\ ab_lock' = "task"
            /\ ab_task' = [ab_task EXCEPT ![t] = "locked"]
       ELSE /\ ab_task' = [ab_task EXCEPT ![t] = "waiting"]
            /\ UNCHANGED ab_lock
    /\ UNCHANGED <<ab_aborted, ab_reset, ab_status, ab_log, ab_left>>
    /\ UNCHANGED notAbort

\* lines 133-149, 174-177 and 181-183: the status is written and sent, the
\* guard dropped; the task goes on to its next sleep
TaskPublishes(t) ==
    /\ ab_task[t] = "locked"
    /\ ab_status' = t
    /\ ab_log' = Append(ab_log, t)
    /\ ab_left' = [ab_left EXCEPT ![t] = @ - 1]
    /\ ab_lock' = "free"
    /\ ab_task' = [ab_task EXCEPT ![t] = "suspended"]
    /\ UNCHANGED <<ab_aborted, ab_reset>>
    /\ UNCHANGED notAbort

\* lines 73-75: t.abort() marks the task; it does not stop a poll that is
\* under way
ResetAborts ==
    /\ ab_reset = "idle"
    /\ ab_aborted' = [ab_aborted EXCEPT ![1] = TRUE]
    /\ ab_reset' = "lock"
    /\ UNCHANGED <<ab_task, ab_lock, ab_status, ab_log, ab_left>>
    /\ UNCHANGED notAbort

\* line 78: self.current_playerdata.lock().await
ResetLocks ==
    /\ ab_reset = "lock"
    /\ ab_lock = "free"
    /\ ab_lock' = "reset"
    /\ ab_reset' = "write"
    /\ UNCHANGED <<ab_task, ab_aborted, ab_status, ab_log, ab_left>>
    /\ UNCHANGED notAbort

\* lines 79-82: the default status is stored and sent, the guard dropped
ResetStoresDefault ==
    /\ ab_reset = "write"
    /\ ab_status' = 0
    /\ ab_log' = Append(ab_log, 0)
    /\ ab_lock' = "free"
    /\ ab_reset' = "spawn"
    /\ UNCHANGED <<ab_task, ab_aborted, ab_left>>
    /\ UNCHANGED notAbort

\* line 86: the task of the new cycle is spawned
ResetSpawns ==
    /\ ab_reset = "spawn"
    /\ ab_task' = [ab_task EXCEPT ![2] = "suspended"]
    /\ ab_reset' = "done"
    /\ UNCHANGED <<ab_aborted, ab_lock, ab_status, ab_log, ab_left>>
    /\ UNCHANGED notAbort

NextAbort ==
    \/ \E t \in AbortTasks : TaskPolled(t)
    \/ \E t \in AbortTasks : TaskCancelled(t)
    \/ \E t \in AbortTasks : TaskLocks(t)
    \/ \E t \in AbortTasks : TaskPublishes(t)
    \/ ResetAborts
    \/ ResetLocks
    \/ ResetStoresDefault
    \/ ResetSpawns

SpecAbort == InitAbort /\ [][NextAbort]_vars

-----------------------------------------------------------------------------
(* SpecCache: the operations on the in-memory store *)

InitCache ==
    /\ CacheIdle
    /\ LoadIdle
    /\ EnrichIdle
    /\ BulkIdle
    /\ PollerIdle
    /\ HistIdle
    /\ SnapIdle
    /\ RequestIdle
    /\ FilterIdle
    /\ WeeklyIdle
    /\ SaveIdle
    /\ CharsIdle
    /\ CurrentIdle
    /\ LifeIdle
    /\ AbortIdle

\* the clock moves on between operations
Tick ==
    /\ \E t \in Instants : t > now /\ now' = t
    /\ UNCHANGED <<cache, op>>
    /\ UNCHANGED notCache

UpdateCache(p, activities) ==
    /\ cache' = update_cache(cache, p, activities, now)
    /\ op' = [p |-> p, name |-> "update_cache", arg |-> activities, res |-> FALSE]
    /\ UNCHANGED now
    /\ UNCHANGED notCache

MergeActivities(p, new_activities) ==
    /\ HasEntry(cache, p) =>
          MergeLoop(cache.profiles[p].activities, new_activities) \in ListsFor(p)
    /\ cache' = merge_activities(cache, p, new_activities, now)
    /\ op' = [p |-> p,
              name |-> IF HasEntry(cache, p) THEN "merge_existing" ELSE "merge_absent",
              arg |-> new_activities, res |-> FALSE]
    /\ UNCHANGED now
    /\ UNCHANGED notCache

HasNewActivities(p, recent) ==
    /\ op' = [p |-> p, name |-> "has_new_activities", arg |-> recent,
              res |-> has_new_activities(cache, p, recent)]
    /\ UNCHANGED <<cache, now>>
    /\ UNCHANGED notCache

RemoveProfileCache(p) ==
    /\ HasEntry(cache, p)
    /\ cache' = remove_profile_cache(cache, p)
    /\ op' = [p |-> p, name |-> "remove_profile_cache", arg |-> <<>>, res |-> FALSE]
    /\ UNCHANGED now
    /\ UNCHANGED notCache

ClearCache ==
    /\ \E p \in Profiles : HasEntry(cache, p)
    /\ cache' = clear_cache(cache)
    /\ op' = [p |-> NoProfile, name |-> "clear_cache", arg |-> <<>>, res |-> FALSE]
    /\ UNCHANGED now
    /\ UNCHANGED notCache

NextCache ==
    \/ Tick
    \/ \E p \in Profiles : \E l \in ListsFor(p) : UpdateCache(p, l)
    \/ \E p \in Profiles : \E l \in ListsFor(p) : MergeActivities(p, l)
    \/ \E p \in Profiles : \E l \in ListsFor(p) : HasNewActivities(p, l)
    \/ \E p \in Profiles : RemoveProfileCache(p)
    \/ ClearCache

SpecCache == InitCache /\ [][NextCache]_vars

-----------------------------------------------------------------------------
(* Vocabulary of the properties *)

IdSet(s) == {Identity(s[i]) : i \in 1..Len(s)}

Occurrences(s, id) == Cardinality({i \in 1..Len(s) : Identity(s[i]) = id})

NoRepeatedIdentity(s) == \A id \in IdSet(s) : Occurrences(s, id) = 1

\* newest first: the period never increases from index 1 on
SortedNewestFirst(s) == \A i \in 1..Len(s) : \A j \in i..Len(s) : s[i].period >= s[j].period

MaxPeriod(s) == CHOOSE m \in {s[i].period : i \in 1..Len(s)} :
                    \A i \in 1..Len(s) : s[i].period <= m

\* the cached activity of maximal period, the first of them in the list
Newest(s) == s[CHOOSE i \in 1..Len(s) :
                  /\ s[i].period = MaxPeriod(s)
                  /\ \A j \in 1..(i - 1) : s[j].period < MaxPeriod(s)]

\* a step of merge_activities on a profile that has an entry
MergeExistingStep == op'.name = "merge_existing" /\ now' = now

UpdateCacheStep == op'.name = "update_cache" /\ now' = now

-----------------------------------------------------------------------------
(* Properties of the cache store, under SpecCache *)

\* C1, as claimed: merge_activities on an existing profile leaves the
\* de-duplicated union of the cached list A and the new list B: no
\* (instanceId, period) pair twice, every pair of A or B once, sorted by
\* period descending.
C1_MergeIsDedupUnion ==
    [][MergeExistingStep =>
        LET A == cache.profiles[op'.p].activities
            B == op'.arg
            R == cache'.profiles[op'.p].activities
        IN  /\ NoRepeatedIdentity(R)
            /\ IdSet(R) = IdSet(A) \cup IdSet(B)
            /\ SortedNewestFirst(R)]_vars

\* C1, amended: merge_activities keeps every cached pair as often as the
\* cached list A holds it, adds every pair of B that A lacks exactly once,
\* and leaves the list sorted by period descending; when A holds no pair
\* twice the result is the de-duplicated union of A and B.
C1_MergeKeepsCachedAddsNewOnce ==
    [][MergeExistingStep =>
        LET A == cache.profiles[op'.p].activities
            B == op'.arg
            R == cache'.profiles[op'.p].activities
        IN  /\ IdSet(R) = IdSet(A) \cup IdSet(B)
            /\ \A id \in IdSet(A) : Occurrences(R, id) = Occurrences(A, id)
            /\ \A id \in IdSet(B) \ IdSet(A) : Occurrences(R, id) = 1
            /\ SortedNewestFirst(R)
            /\ NoRepeatedIdentity(A) => NoRepeatedIdentity(R)]_vars

\* a merge of [A@1, A@2] into a cache holding A@1: A@1 is not added again
\* and the newer A@2 comes first
C1_Witness ==
    /\ op.name = "merge_existing"
    /\ op.arg = <<Raid("A", 1), Raid("A", 2)>>
    /\ cache.profiles[op.p].activities = <<Raid("A", 2), Raid("A", 1)>>

\* C3, as claimed: has_new_activities is false for an empty recent list, true
\* for a non-empty one when the profile caches nothing, and otherwise true iff
\* some recent activity is later than the cached activity of maximal period,
\* or as late under another instanceId.
C3_HasNewComparesWithNewest ==
    op.name = "has_new_activities" =>
        LET recent == op.arg
            entry  == cache.profiles[op.p]
        IN  op.res =
            IF recent = <<>> THEN FALSE
            ELSE IF entry = NoEntry \/ entry.activities = <<>> THEN TRUE
            ELSE LET newest == Newest(entry.activities) IN
                 \E i \in 1..Len(recent) :
                     \/ recent[i].period > newest.period
                     \/ /\ recent[i].period = newest.period
                        /\ recent[i].instance_id # newest.instance_id

\* C6: update_cache makes the profile's list the given list, stamps
\* lastUpdated with the current time, cacheVersion and the store's version
\* with the current version, and leaves every other profile's entry as it was.
C6_UpdateReplacesWholesale ==
    [][UpdateCacheStep =>
        /\ cache'.profiles[op'.p] =
              [activities |-> op'.arg, last_updated |-> now,
               profile_id |-> op'.p, cache_version |-> CACHE_VERSION]
        /\ cache'.version = CACHE_VERSION
        /\ \A q \in Profiles \ {op'.p} : cache'.profiles[q] = cache.profiles[q]]_vars

\* update_cache at time 1 on p1, with a shorter list than p1 could hold,
\* while p2 has an entry stamped at time 0
C6_Witness ==
    /\ op.name = "update_cache" /\ op.p = "p1"
    /\ cache.profiles["p1"].activities = <<Raid("B", 2)>>
    /\ cache.profiles["p1"].last_updated = 1
    /\ HasEntry(cache, "p2")
    /\ cache.profiles["p2"].last_updated = 0
    /\ cache.profiles["p2"].activities # <<>>

-----------------------------------------------------------------------------
(* Properties of start-up, under SpecLoad *)

\* the document main's load saw has a top-level version other than the current
TopLevelMismatch(f) ==
    f.kind = "doc" /\ f.version # Present(CACHE_VERSION)

\* C4, as claimed: load never returns an error: whatever the state of the
\* persisted file it returns a store, and for a missing, an unparsable and a
\* version-mismatched file that store has no profile and the current version.
C4_LoadNeverFails ==
    (pcMain # "start" /\ configDir) =>
        /\ loadRes.res.kind = "ok"
        /\ (loadRes.saw.kind \in {"missing", "unparsable"}
            \/ TopLevelMismatch(loadRes.saw))
           => loadRes.res.store = CacheManager_new

\* C4, amended: load returns an error only when the file exists and cannot be
\* read (or no config directory is found), and main then starts from a fresh
\* empty store, so start-up always ends with a store; for a missing, an
\* unparsable and a top-level-mismatched file load itself returns a store with
\* no profile and the current version.
C4_LoadFailsOnlyUnreadable ==
    /\ pcMain # "start" =>
        /\ loadRes.res.kind \in {"ok", "err"}
        /\ loadRes.res.kind = "err" <=>
              (~configDir \/ loadRes.saw.kind = "unreadable")
        /\ (configDir /\ (loadRes.saw.kind \in {"missing", "unparsable"}
                          \/ TopLevelMismatch(loadRes.saw)))
           => /\ loadRes.res.kind = "ok"
              /\ loadRes.res.store.version = CACHE_VERSION
              /\ \A p \in Profiles : loadRes.res.store.profiles[p] = NoEntry
    /\ pcMain = "managed" =>
        /\ managed # Unset
        /\ managed.version = CACHE_VERSION
        /\ loadRes.res.kind = "err" => managed = CacheManager_new
        /\ loadRes.res.kind = "ok" => managed = loadRes.res.store

\* an unreadable file: load failed and main went on with an empty store
C4_Witness ==
    /\ pcMain = "managed"
    /\ configDir
    /\ loadRes.saw.kind = "unreadable"
    /\ loadRes.res.kind = "err"
    /\ managed = CacheManager_new

\* C5: loading a document whose top-level version is current raises no error,
\* removes exactly the profile entries whose cacheVersion is not the current
\* version and keeps every other entry as the document has it; every entry
\* left has the current cacheVersion.
C5_LoadPurgesStaleProfiles ==
    (/\ pcMain # "start" /\ configDir
     /\ loadRes.saw.kind = "doc"
     /\ loadRes.saw.version = Present(CACHE_VERSION)) =>
        /\ loadRes.res.kind = "ok"
        /\ \A p \in Profiles :
            LET d == loadRes.saw.profiles[p]
                e == loadRes.res.store.profiles[p]
            IN  IF d # NoEntry /\ d.cache_version = Present(CACHE_VERSION)
                THEN /\ e # NoEntry
                     /\ e.activities = d.activities
                     /\ e.last_updated = d.last_updated
                     /\ e.profile_id = d.profile_id
                     /\ e.cache_version = CACHE_VERSION
                ELSE e = NoEntry

\* p1's entry is current and kept, p2's is of the previous version and gone
C5_Witness ==
    /\ pcMain = "managed"
    /\ loadRes.saw.kind = "doc"
    /\ loadRes.saw.version = Present(CACHE_VERSION)
    /\ loadRes.saw.profiles["p1"] # NoEntry
    /\ loadRes.saw.profiles["p1"].cache_version = Present(CACHE_VERSION)
    /\ loadRes.saw.profiles["p1"].activities # <<>>
    /\ loadRes.saw.profiles["p2"] # NoEntry
    /\ loadRes.saw.profiles["p2"].cache_version = Present(CACHE_VERSION - 1)
    /\ managed.profiles["p1"] # NoEntry
    /\ managed.profiles["p1"].activities = loadRes.saw.profiles["p1"].activities
    /\ managed.profiles["p2"] = NoEntry

-----------------------------------------------------------------------------
(* Properties of the staleness decisions, under SpecStale *)

\* the decision the claim asks for, on a cache age in seconds
StaleAsClaimed(o) ==
    /\ o.arg.age = Minutes(4) => ~o.res
    /\ o.arg.age >= Minutes(5) => o.res

\* C7, as claimed: the staleness decision is false for an entry updated 4
\* minutes before now and true for one updated 5 minutes or more before now,
\* both in should_refresh_cache called with the 5-minute threshold and in
\* update_history's check.
C7_StalenessGate ==
    /\ (op.name = "should_refresh_cache" /\ HasEntry(cache, op.p)
        /\ op.arg.max_age = CACHE_STALE_MINUTES) => StaleAsClaimed(op)
    /\ op.name = "should_check_updates" => StaleAsClaimed(op)

\* the half of C7 the code keeps: update_history's own check
UpdateHistoryGateAt5Minutes ==
    op.name = "should_check_updates" =>
        /\ StaleAsClaimed(op)
        /\ op.res <=> op.arg.age >= Minutes(5)

-----------------------------------------------------------------------------
(* Properties of the detail enrichment, under SpecEnrich *)

RequestsThisPass == {i \in 1..Len(acts0) : reqCount[i] > 0}

FullyEnriched(s) ==
    \A i \in 1..Len(s) : s[i].activity_was_started_from_beginning # None

\* C8: a pass requests the detail of exactly the activities whose
\* wasStartedFromBeginning is absent, each once; on a list in which every
\* activity has the field it issues no request and leaves the list as it is.
C8_EnrichRequestsExactlyUnenriched ==
    /\ \A i \in RequestsThisPass :
          /\ acts0[i].activity_was_started_from_beginning = None
          /\ reqCount[i] = 1
    /\ pcEnrich = "returned" =>
          RequestsThisPass =
            {i \in 1..Len(acts0) : acts0[i].activity_was_started_from_beginning = None}
    /\ (pcEnrich = "returned" /\ FullyEnriched(acts0)) =>
          /\ RequestsThisPass = {}
          /\ acts = acts0

\* the second pass over two activities the first pass enriched: no request
C8_Witness ==
    /\ passes = 2
    /\ pcEnrich = "returned"
    /\ Len(acts) = 2
    /\ FullyEnriched(acts0)
    /\ RequestsThisPass = {}
    /\ reqEver = 2

\* the indices of the list the pass has a task for
Fetching == {fetch_list[k] : k \in DOMAIN fetch_list}

\* C27: the enrichment returns only when every task has ended; the list
\* keeps its length and order and differs from the list handed in only by
\* the two detail fields of the activities whose fetch succeeded; an
\* activity whose fetch failed is still there as it was; no activity is
\* requested twice in a pass; a failure leaves the other fetches their effect.
C27_EnrichPatchesOnlySucceeded ==
    /\ Len(acts) = Len(acts0)
    /\ \A i \in 1..Len(acts) :
          /\ reqCount[i] <= 1
          /\ i \notin Fetching => acts[i] = acts0[i]
          /\ \E v \in PgcrValues \cup {[starting_phase_index |-> acts0[i].starting_phase_index,
                                        activity_was_started_from_beginning |->
                                            acts0[i].activity_was_started_from_beginning]} :
                acts[i] = Enriched(acts0[i], v)
    /\ pcEnrich = "returned" =>
          /\ joined = Len(fetch_list)
          /\ \A k \in DOMAIN task :
                /\ task[k].st \in {"ok", "failed"}
                /\ task[k].st = "failed" => acts[fetch_list[k]] = acts0[fetch_list[k]]
                /\ task[k].st = "ok" =>
                      acts[fetch_list[k]] = Enriched(acts0[fetch_list[k]], task[k].pgcr)

\* the first fetch failed and the second succeeded
C27_Witness ==
    /\ pcEnrich = "returned"
    /\ Len(task) = 2
    /\ task[1].st = "failed"
    /\ task[2].st = "ok"
    /\ acts[fetch_list[1]] = acts0[fetch_list[1]]
    /\ acts[fetch_list[2]] # acts0[fetch_list[2]]
    /\ Len(acts) = 2

DetailRequestsInFlight == Cardinality({k \in DOMAIN task : task[k] = InFlight})

\* C24: the detail requests in flight never exceed the permits of the
\* enrichment semaphore, however many activities need a report, and every
\* spawned task gets a permit and ends: the pass returns with all done.
C24_DetailRequestsWithinPermits ==
    /\ [](/\ DetailRequestsInFlight <= PgcrPermits
          /\ DetailRequestsInFlight + permits = PgcrPermits
          /\ pcEnrich = "returned" =>
                \A k \in DOMAIN task : task[k].st \in {"ok", "failed"})
    /\ (pcEnrich = "running") ~> (pcEnrich = "returned")

\* the second task has got the permit the first one dropped
C24_Witness ==
    /\ pcEnrich = "running"
    /\ Len(task) = 2
    /\ task[1].st \in {"ok", "failed"}
    /\ task[2] = InFlight
    /\ permits = 0

-----------------------------------------------------------------------------
(* Properties of the bulk fetch, under SpecBulk *)

RECURSIVE SumRequests(_)
SumRequests(pages) ==
    IF pages = {} THEN 0
    ELSE LET page == CHOOSE q \in pages : TRUE
         IN  requested[page] + SumRequests(pages \ {page})

TotalRequests == SumRequests(DOMAIN requested)

NonEmptyPages == Len(remote.pages)

\* the workers are through, no request failed, and the page after the last
\* non-empty one is below the page ceiling
FetchRanToTheEmptyPage ==
    /\ AllWorkersDone
    /\ ~anyError
    /\ NonEmptyPages < MaxFetchPages

\* C9 as stated: against a remote with N non-empty pages followed by empty
\* ones, the finished bulk fetch of a character has issued exactly N+1 page
\* requests.
C9_ExactlyNPlusOneRequests ==
    FetchRanToTheEmptyPage => TotalRequests = NonEmptyPages + 1

C9_RequestsWithinRaceBound ==
    /\ \A page \in DOMAIN requested : requested[page] <= 1
    /\ \A w \in Workers : wsaw[w] = "stop" => wpc[w] = "done"
    /\ FetchRanToTheEmptyPage =>
          /\ \A page \in 0..NonEmptyPages : requested[page] = 1
          /\ TotalRequests >= NonEmptyPages + 1
          /\ TotalRequests <= NonEmptyPages + NumWorkers

\* C9, amended: the bulk fetch of a character terminates; no page is
\* requested twice and a worker that has observed the stop flag issues no
\* further request; when no request fails and the first empty page N lies
\* below the page ceiling, pages 0..N are each requested once and the workers
\* racing ahead request at most one further page each, so the total lies
\* between N+1 and N + the number of workers.
C9_BulkFetchTerminatesWithinRaceBound ==
    /\ []C9_RequestsWithinRaceBound
    /\ <>AllWorkersDone

\* a finished fetch over one non-empty page in which every worker ran into an
\* empty page of its own: more than N+1 requests
C9_Witness ==
    /\ FetchRanToTheEmptyPage
    /\ NonEmptyPages = 1
    /\ TotalRequests = NonEmptyPages + NumWorkers
    /\ \A w \in Workers : wsaw[w] = "end"

\* the workers that hold the index without having sent its request
ClaimHolders(page) == {w \in Workers : wpc[w] = "acquire" /\ wpage[w] = page}

\* the workers that are between the claim of an index and the end of the
\* turn of the loop that claimed it
WorkersOnAPage == {w \in Workers : wpc[w] \in {"acquire", "inflight", "push"}}

\* worker w takes an index in this step
Claims(w) == wpc[w] = "claim" /\ wpc'[w] = "acquire"

\* C39: the page counter of a character's fetch hands each index to at most
\* one worker, the indices handed out are exactly 0..next_page-1, the
\* counter never decreases, and no index at or above the page ceiling is
\* claimed or requested.
C39_CounterHandsOutPrefix ==
    /\ [][next_page' >= next_page]_vars
    /\ [][\A w \in Workers :
             Claims(w) => /\ wpage'[w] = next_page
                          /\ next_page' = next_page + 1
                          /\ next_page < MaxFetchPages
                          /\ \A v \in Workers \ {w} : ~Claims(v)]_vars
    /\ [][\A w \in Workers : wpage'[w] # wpage[w] => Claims(w)]_vars
    /\ [](/\ next_page <= MaxFetchPages
          /\ \A page \in 0..(MaxFetchPages - 1) :
                requested[page] + Cardinality(ClaimHolders(page))
                   = IF page < next_page THEN 1 ELSE 0
          /\ \A w \in WorkersOnAPage :
                /\ wpage[w] < next_page
                /\ wpage[w] < MaxFetchPages
                /\ \A v \in WorkersOnAPage \ {w} : wpage[v] # wpage[w])

\* the counter stands at the ceiling, every index below it was requested
\* once, and a worker was turned away
C39_Witness ==
    /\ next_page = MaxFetchPages
    /\ \A page \in 0..(MaxFetchPages - 1) : requested[page] = 1
    /\ \E w \in Workers : wsaw[w] = "ceiling"

\* what the workers' filter keeps of all pages of the remote
RECURSIVE KeptOfPages(_)
KeptOfPages(pages) ==
    IF pages = <<>> THEN <<>>
    ELSE PushKept(Head(pages), <<>>, WeeklyReset) \o KeptOfPages(Tail(pages))

\* the indices from the first empty page on
ExhaustedPages == {page \in DOMAIN requested : page >= NonEmptyPages}

\* the workers whose request for an exhausted page is out or has ended
\* their loop
AskedExhausted ==
    {w \in Workers : /\ wpage[w] >= NonEmptyPages
                      /\ \/ wpc[w] = "inflight"
                         \/ wpc[w] = "done" /\ wsaw[w] \in {"end", "error"}}

\* every activity the filter keeps of the non-empty pages is in the
\* accumulated result, once
AllKeptAccumulated ==
    LET kept == KeptOfPages(remote.pages)
    IN  /\ Len(all_activities) = Len(kept)
        /\ \A i \in 1..Len(kept) :
              \E j \in 1..Len(all_activities) : SameIdentity(all_activities[j], kept[i])

\* between N+1 and N+W page requests
RequestsBetweenNPlusOneAndNPlusW ==
    /\ TotalRequests >= NonEmptyPages + 1
    /\ TotalRequests <= NonEmptyPages + NumWorkers

\* C40 as stated: against a remote with N non-empty pages followed by empty
\* ones that answers every request, a finished fetch has made between N+1
\* and N+W page requests and has accumulated every kept activity of pages
\* 0..N-1.
C40_BetweenNPlusOneAndNPlusW ==
    (AllWorkersDone /\ ~anyError) =>
        /\ RequestsBetweenNPlusOneAndNPlusW
        /\ AllKeptAccumulated

\* C40, amended: a worker's request for an exhausted page is its last one,
\* so the requests for exhausted pages are at most one a worker and the
\* total is at most N+W; when no request fails and N is below the page
\* ceiling the total is at least N+1; when no request fails every kept
\* activity of pages 0..N-1 is in the accumulated result.
C40_OneExhaustedRequestAWorker ==
    /\ [][\A w \in Workers :
             (wpc[w] = "inflight" /\ wpage[w] >= NonEmptyPages /\ wpc'[w] # wpc[w])
                => wpc'[w] = "done"]_vars
    /\ [][\A w \in Workers : wpc[w] = "done" => wpc'[w] = "done"]_vars
    /\ [](/\ SumRequests(ExhaustedPages) <= Cardinality(AskedExhausted)
          /\ TotalRequests <= NonEmptyPages + NumWorkers
          /\ FetchRanToTheEmptyPage => RequestsBetweenNPlusOneAndNPlusW
          /\ (AllWorkersDone /\ ~anyError) => AllKeptAccumulated)

\* every worker ended on an exhausted page of its own, and the activity of
\* the one non-empty page is in the result
C40_Witness ==
    /\ FetchRanToTheEmptyPage
    /\ NonEmptyPages >= 1
    /\ AskedExhausted = Workers
    /\ SumRequests(ExhaustedPages) = NumWorkers
    /\ all_activities # <<>>
    /\ AllKeptAccumulated

\* the non-empty pages reach the page ceiling: N requests, none for an
\* exhausted page
CeilingEndsFetchAfterNRequests ==
    /\ AllWorkersDone
    /\ ~anyError
    /\ NonEmptyPages = MaxFetchPages
    /\ TotalRequests = NonEmptyPages
    /\ AllKeptAccumulated

\* the flag is never cleared
StopFlagStaysSet == [][should_stop => should_stop']_vars

\* C28 as stated: a worker that has seen the page ceiling, a failed request
\* or an empty or absent body has set the stop flag; the flag is never
\* cleared; every worker exits.
C28_FlagSetOnCeilingErrorOrEnd ==
    /\ [](\A w \in Workers : wsaw[w] \in {"ceiling", "error", "end"} => should_stop)
    /\ StopFlagStaysSet
    /\ <>AllWorkersDone

\* a worker leaving at the page ceiling leaves the flag as it found it
CeilingLeavesFlag ==
    [][\A w \in Workers :
          (wsaw[w] # "ceiling" /\ wsaw'[w] = "ceiling") =>
             should_stop' = should_stop]_vars

\* C28, amended: a worker sets the stop flag when its request fails or its
\* page body is empty or absent, and the flag is set by nothing else; a
\* worker that finds the page index at the ceiling exits without touching
\* the flag; once set the flag is never cleared; every worker exits.
C28_FlagSetOnErrorOrEndOnly ==
    /\ [](\A w \in Workers : wsaw[w] \in {"error", "end"} => should_stop)
    /\ [](should_stop => \E w \in Workers : wsaw[w] \in {"error", "end"})
    /\ CeilingLeavesFlag
    /\ StopFlagStaysSet
    /\ <>AllWorkersDone

\* a failed request set the flag, another worker saw it and left
C28_Witness ==
    /\ AllWorkersDone
    /\ should_stop
    /\ \E w \in Workers : wsaw[w] = "error"
    /\ \E w \in Workers : wsaw[w] = "stop"

\* every worker left at the page ceiling and the flag was never set
AllLeftAtCeilingWithoutFlag ==
    /\ AllWorkersDone
    /\ ~should_stop
    /\ \A w \in Workers : wsaw[w] = "ceiling"

\* the same completions in the same order, whatever their report fields
SameCompletions(l1, l2) ==
    /\ Len(l1) = Len(l2)
    /\ \A i \in 1..Len(l1) : SameIdentity(l1[i], l2[i])

\* C37: a bulk fetch in which page requests fail still ends with success: a
\* failing request takes nothing from the accumulated activities, the fetch
\* comes to its end, and it then stores an entry for the profile holding
\* exactly the accumulated activities, so that later history updates find
\* an entry and take the cached branch.
C37_FailedPagesStillCached ==
    /\ [][(~anyError /\ anyError') => all_activities' = all_activities]_vars
    /\ [][pcBulk' = "workers" =>
             /\ Len(all_activities) <= Len(all_activities')
             /\ SubSeq(all_activities', 1, Len(all_activities)) = all_activities]_vars
    /\ [][(pcBulk = "workers" /\ pcBulk' # "workers") =>
             /\ pcBulk' = "cached"
             /\ HasEntry(cache', "p1")
             /\ SameCompletions(cache'.profiles["p1"].activities, all_activities)]_vars
    /\ [](pcBulk = "cached" => HasEntry(cache, "p1"))
    /\ <>(pcBulk = "cached")

\* a page request failed; the entry holds what had been accumulated, less
\* than the remote has
C37_Witness ==
    /\ pcBulk = "cached"
    /\ anyError
    /\ HasEntry(cache, "p1")
    /\ cache.profiles["p1"].activities # <<>>
    /\ Len(cache.profiles["p1"].activities) < Len(KeptOfPages(remote.pages))

\* every page request failed; the entry is empty
AllPagesFailedEmptyEntry ==
    /\ pcBulk = "cached"
    /\ anyError
    /\ remote.pages # <<>>
    /\ HasEntry(cache, "p1")
    /\ cache.profiles["p1"].activities = <<>>
    /\ \A w \in Workers : wsaw[w] \in {"error", "stop"}

\* C2: every profile's cached list is sorted newest first, so index 0 holds
\* an activity of maximal period.
C2_CachedListsSortedNewestFirst ==
    \A p \in Profiles :
        HasEntry(cache, p) => SortedNewestFirst(cache.profiles[p].activities)

-----------------------------------------------------------------------------
(* Properties of the poller, under SpecPoller *)

\* C10: after a poll cycle has failed, in the first cycle or in a steady tick,
\* the error is on the published status and the task is still running, so
\* that a later tick makes a fresh attempt without any reset.
C10_FailedCycleKeepsPollerRunning ==
    lastCycle.res = "err" =>
        /\ status.error # None
        /\ published = Some(status)
        /\ pcPoller # "exited"

\* the part of C10 the code does keep: a failed steady tick publishes the
\* error and leaves the task in its loop
SteadyFailureKeepsPollerRunning ==
    (lastCycle.phase = "steady" /\ lastCycle.res = "err") =>
        /\ status.error # None
        /\ published = Some(status)
        /\ pcPoller # "exited"

\* C13: in the steady loop a history refresh comes after exactly five
\* current-activity ticks, and the counter is 0 again once the history tick
\* is over
C13_HistoryEveryFiveCurrentTicks ==
    /\ pcPoller = "steady_history" => sinceHistory = 5
    /\ (pcPoller = "sleeping" /\ lastCycle.phase = "steady"
        /\ lastCycle.part = "history") => count = 0

\* what the loop does: the history tick leaves the counter at 1
HistoryTickLeavesCounterAtOne ==
    (pcPoller = "sleeping" /\ lastCycle.phase = "steady"
     /\ lastCycle.part = "history") => count = 1

\* what the loop does: five current ticks before the first steady history
\* refresh of a task, four before each later one
HistoryAfterFourOrFiveCurrentTicks ==
    pcPoller = "steady_history" =>
        sinceHistory \in {4, 5}

HistoryAfterFourCurrentTicks ==
    pcPoller = "steady_history" /\ sinceHistory = 4

\* a step of the poller task that ends a refresh cycle
EndsCycle ==
    /\ pcPoller \in {"profile_info", "bootstrap_current", "bootstrap_history",
                     "steady_current", "steady_history"}
    /\ pcPoller' \in {"sleeping", "exited"}

\* C14: a steady refresh that returns Ok(false) sends no update and leaves
\* the shared status, snapshot and error alike, as it was before the tick
C14_NoChangePublishesNothing ==
    [][(EndsCycle /\ lastCycle'.phase = "steady" /\ lastCycle'.res = "ok_false")
        => (status' = status /\ published' = published /\ sent' = FALSE)]_vars

\* a no-change tick has just ended while an earlier error is still shown
C14_Witness ==
    /\ pcPoller = "sleeping"
    /\ lastCycle.phase = "steady"
    /\ lastCycle.res = "ok_false"
    /\ status.error # None
    /\ status.last_update # None
    /\ sent = FALSE

\* C15: a refresh cycle that fails changes only the error of the shared
\* status; the snapshot published before stays, whatever the failed refresh
\* wrote into its working copy
C15_FailedCycleChangesOnlyError ==
    [][(EndsCycle /\ lastCycle'.res = "err")
        => /\ status'.last_update = status.last_update
           /\ status'.error # None
           /\ published' = Some(status')]_vars

\* a steady update_current has failed after writing start_date into its
\* working copy
C15_Witness ==
    /\ pcPoller = "sleeping"
    /\ lastCycle = Cycle("steady", "current", "err")
    /\ status.last_update # None
    /\ status.error # None
    /\ task_current # status.last_update[1].current_activity

-----------------------------------------------------------------------------
(* Properties of a reset during the bulk fetch, under SpecCancel *)

\* C11: once reset has aborted the poller task, no task that cycle started
\* issues a further remote request.
C11_NoRequestAfterAbort ==
    [][TreeAborted => requested' = requested]_vars

-----------------------------------------------------------------------------
(* Properties of update_history's locking, under SpecHistory *)

\* C12: the mutex of the cache store is never held while a request to the
\* remote is in flight.
C12_LockNotHeldAcrossRequests ==
    RequestInFlight => cacheLock = "free"

\* the call found an entry of the profile that is less than 5 minutes old
FreshEntry ==
    /\ HasEntry(hist_cache0, HistProfile)
    /\ CacheAge(hist_cache0, HistProfile, now) < Minutes(CACHE_STALE_MINUTES)

\* C25: a history update that finds a cache entry less than 5 minutes old
\* issues no history and no detail request and leaves the entry, activities
\* and stamp, as it is; what it hands back is the filtered cached list.
C25_FreshEntrySkipsRemote ==
    FreshEntry =>
        /\ pcHist \notin {"first_page", "pages", "pgcr", "bulk", "bulk_pgcr"}
        /\ cache = hist_cache0
        /\ (pcHist = "returned" /\ hist_res = "ok_true") =>
              hist_new = sort_by_period_desc(
                            Retained(hist_cache0.profiles[HistProfile].activities,
                                     WeeklyReset))
        /\ (pcHist = "returned" /\ hist_res = "ok_false") => hist_new = hist_last

\* an entry 4 minutes and 40 seconds old, handed back without a request
C25_Witness ==
    /\ FreshEntry
    /\ CacheAge(hist_cache0, HistProfile, now) = Minutes(5) - 20
    /\ pcHist = "returned"
    /\ hist_res = "ok_true"
    /\ hist_new # <<>>

\* the call found an entry of the profile that is 5 minutes old or older
StaleEntry ==
    /\ HasEntry(hist_cache0, HistProfile)
    /\ should_check_updates(hist_cache0, HistProfile, now)

\* the page-0 listing came back with nothing the entry does not hold
NoNewDetected == pcHist = "first_page" /\ pcHist' = "finish"

\* the entry of the profile is not the one of the step before
EntryChanges == cache'.profiles[HistProfile] # cache.profiles[HistProfile]

\* C38: a refresh that finds the entry stale and detects no new activity
\* leaves the entry as it is, stamp included: the stamp moves only in the
\* steps that call update_cache or merge_activities; so when the call is
\* back the entry is still stale, at this and at every later clock reading,
\* and the next update asks the remote again.
C38_NoNewLeavesEntryStale ==
    /\ [][NoNewDetected =>
             /\ StaleEntry
             /\ cache' = hist_cache0
             /\ should_check_updates(cache', HistProfile, now')]_vars
    /\ [][pcHist = "finish" => cache' = cache]_vars
    /\ [][EntryChanges => pcHist \in {"pgcr", "bulk", "bulk_pgcr"}]_vars
    /\ []((pcHist = "returned" /\ hist_res # "err" /\ StaleEntry
             /\ hist_cache0.profiles[HistProfile].last_updated
                 = cache.profiles[HistProfile].last_updated) =>
            /\ cache = hist_cache0
            /\ \A later \in now..(now + Minutes(CACHE_STALE_MINUTES)) :
                  should_check_updates(cache, HistProfile, later))

\* a stale entry, a page-0 listing without news, the call back with the
\* entry as it was
C38_Witness ==
    /\ pcHist = "returned"
    /\ hist_res # "err"
    /\ StaleEntry
    /\ hist_cache0.profiles[HistProfile].activities # <<>>
    /\ cache = hist_cache0
    /\ should_check_updates(cache, HistProfile, now)

\* some record of the list is newer than every record of the other list
HasNewerThan(list, other) ==
    \E i \in 1..Len(list) : \A j \in 1..Len(other) : list[i].period > other[j].period

\* C26: a history update reports "changed" only when the filtered cached set
\* has a record newer than the caller's newest one; with nothing newer, as
\* when both are empty, it reports "no change".
C26_ChangedOnlyWhenNewer ==
    (pcHist = "returned" /\ hist_res = "ok_true") => HasNewerThan(hist_new, hist_last)

\* the caller knew nothing, the filtered set is empty, "changed" is reported
ChangedWithBothEmpty ==
    /\ pcHist = "returned"
    /\ hist_res = "ok_true"
    /\ hist_last = <<>>
    /\ hist_new = <<>>

\* the caller's records are replaced by an empty filtered set
ChangedToEmpty ==
    /\ pcHist = "returned"
    /\ hist_res = "ok_true"
    /\ hist_last # <<>>
    /\ hist_new = <<>>

\* the activities of the list fetch_pgcrs_for_activities requests a report
\* for while update_history stands at line 348
DetailRequested ==
    IF pcHist = "pgcr"
    THEN {hist_new[i] : i \in {j \in 1..Len(hist_new) : needs_pgcr(hist_new[j])}}
    ELSE {}

\* the profile's entry holds an activity of this instance id and period
AlreadyCached(activity) ==
    /\ HasEntry(cache, HistProfile)
    /\ \E i \in 1..Len(cache.profiles[HistProfile].activities) :
          /\ cache.profiles[HistProfile].activities[i].instance_id = activity.instance_id
          /\ cache.profiles[HistProfile].activities[i].period = activity.period

\* C32: the incremental refresh issues no detail request for an activity
\* that is already in the profile's cache.
C32_NoDetailRequestForCached ==
    \A activity \in DetailRequested : ~AlreadyCached(activity)

\* a detail request is out for an activity the entry already holds
DetailRequestedForCached ==
    \E activity \in DetailRequested : AlreadyCached(activity)

\* the steps of SpecHistory end where update_history, taken as one step, ends
StepsAgreeWithUpdateHistory ==
    pcHist = "returned" =>
        \E r \in update_history(hist_cache0, HistProfile, now, hist_last) :
            /\ r.res = hist_res
            /\ r.cache = cache
            /\ (hist_res # "err" => r.history = hist_new)

-----------------------------------------------------------------------------
(* Properties of the snapshot query, under SpecSnapshot *)

\* C16: the query for the current snapshot never waits: it answers at once,
\* with "unavailable" while the snapshot is being updated by the task or by
\* a reset, and with a copy of the status otherwise.
C16_QueryNeverWaits ==
    \A c \in Callers : pcQuery[c] # "waiting"

\* what get_data itself does once the command holds the container: it
\* answers without waiting, "unavailable" exactly when the status is locked
GetDataAnswersByTryLock ==
    [][\A c \in Callers :
        (pcQuery[c] \in {"holding", "holding_late"} /\ pcQuery'[c] = "idle") =>
            answer'[c] = (IF playerdata_lock = "free" THEN playerdata
                                                      ELSE "unavailable")]_vars

\* a command that holds the container never meets a reset in progress
QueryNeverSeesReset ==
    \A c \in Callers :
        pcQuery[c] \in {"holding", "holding_late"} => pcResetter = "idle"

\* a command waits while a reset waits for the task to drop the status
QueryWaitsBehindReset ==
    \E c \in Callers :
        /\ pcQuery[c] = "waiting"
        /\ pcResetter = "lock_playerdata"
        /\ playerdata_lock = "task"

QueryAnswersUnavailable ==
    \E c \in Callers : answer[c] = "unavailable"

-----------------------------------------------------------------------------
(* Properties of make_request, under SpecRequest *)

Unavailable(resp) == resp.sent /\ resp.status_code = 503

\* C17: a 503 is retried after waits of 2, 4 and 8 seconds, at most three
\* times; the fourth 503 in a row is a NetworkError; any other answer ends
\* the retrying; a request ends after at most four sends.
C17_RetriesBoundedWithDoublingWaits ==
    /\ [](/\ sends <= max_retries + 1
          /\ Len(waits) = retry_count
          /\ retry_count <= max_retries
          /\ \A i \in 1..Len(waits) : waits[i] = 2 ^ i
          /\ pcReq \in {"sleeping", "send"} => sends = retry_count
          /\ pcReq = "sleeping" => Unavailable(last_resp)
          /\ (pcReq = "done" /\ Unavailable(last_resp)) =>
                /\ sends = max_retries + 1
                /\ waits = <<2, 4, 8>>
                /\ req_result = "NetworkError")
    /\ (pcReq = "send") ~> (pcReq = "done")

\* the fourth 503 in a row has ended the request
C17_Witness ==
    /\ pcReq = "done"
    /\ Unavailable(last_resp)
    /\ sends = 4
    /\ waits = <<2, 4, 8>>
    /\ req_result = "NetworkError"

\* C18: an answer other than 503 ends the request in the send that met it:
\* no response gives NetworkError, an unparsable body DeserializeError, an
\* envelope with an error code other than success BungieError, a success
\* envelope without payload ResponseMissing, and only a success envelope
\* with payload a value; if the first answer is of this kind there was
\* exactly one send.
C18_EnvelopeClassifiedWithoutRetry ==
    (pcReq = "done" /\ ~Unavailable(last_resp)) =>
        /\ sends = retry_count + 1
        /\ (retry_count = 0 => sends = 1)
        /\ (~last_resp.sent => req_result = "NetworkError")
        /\ (last_resp.sent /\ last_resp.readable /\ ~last_resp.parses)
              => req_result = "DeserializeError"
        /\ (last_resp.sent /\ last_resp.readable /\ last_resp.parses
            /\ last_resp.error_code # 1) => req_result = "BungieError"
        /\ (last_resp.sent /\ last_resp.readable /\ last_resp.parses
            /\ last_resp.error_code = 1 /\ ~last_resp.has_response)
              => req_result = "ResponseMissing"
        /\ (req_result = "Ok" <=>
              (last_resp.sent /\ last_resp.readable /\ last_resp.parses
               /\ last_resp.error_code = 1 /\ last_resp.has_response))

\* a success envelope without payload, met by the first send
C18_Witness ==
    /\ pcReq = "done"
    /\ sends = 1
    /\ last_resp.sent /\ last_resp.status_code = 200
    /\ last_resp.readable /\ last_resp.parses
    /\ last_resp.error_code = 1 /\ ~last_resp.has_response
    /\ req_result = "ResponseMissing"

-----------------------------------------------------------------------------
(* Properties of the keep/drop filter, under SpecFilter *)

\* the rule in words: raid or dungeon by tag or by known hash, or else strike
\* or lost sector by tag and not before the weekly reset
KeepRule(a, boundary) ==
    \/ RAID_ACTIVITY_MODE \in a.modes
    \/ DUNGEON_ACTIVITY_MODE \in a.modes
    \/ a.activity_hash \in KNOWN_RAID_HASHES \cup KNOWN_DUNGEON_HASHES
    \/ /\ STRIKE_ACTIVITY_MODE \in a.modes \/ LOSTSECTOR_ACTIVITY_MODE \in a.modes
       /\ a.period >= boundary

CountOf(x, list) == Cardinality({i \in DOMAIN list : list[i] = x})

SameElements(l1, l2) ==
    \A x \in FilterListUniverse : CountOf(x, l1) = CountOf(x, l2)

Reordered(list, f) == [i \in DOMAIN list |-> list[f[i]]]

\* C19: both copies of the filter keep an activity exactly when the rule
\* says so, for every activity and boundary, and what they keep of a list is
\* the same whatever the order of the list.
C19_FilterKeepsByRuleInAnyOrder ==
    /\ filt_verdict # None =>
          /\ filt_verdict[1].history = KeepRule(filt_activity, filt_reset)
          /\ filt_verdict[1].worker = KeepRule(filt_activity, filt_reset)
    /\ filt_kept # None =>
          /\ \A x \in FilterListUniverse :
                CountOf(x, filt_kept[1]) =
                    (IF KeepRule(x, filt_reset) THEN CountOf(x, filt_list) ELSE 0)
          /\ \A f \in Permutations(DOMAIN filt_list) :
                SameElements(Retained(Reordered(filt_list, f), filt_reset),
                             filt_kept[1])
    /\ filt_pushed # None =>
          /\ \A x \in FilterListUniverse :
                CountOf(x, filt_pushed[1]) =
                    (IF KeepRule(x, filt_reset) THEN CountOf(x, filt_list) ELSE 0)
          /\ \A f \in Permutations(DOMAIN filt_list) :
                SameElements(PushKept(Reordered(filt_list, f), <<>>, filt_reset),
                             filt_pushed[1])

\* C33: the filter the page workers apply and the filter update_history
\* applies to the cached list are one predicate: on every activity and
\* boundary their verdicts agree, and of every list both keep the same
\* activities in the same order.
C33_FiltersAgree ==
    /\ filt_verdict # None => filt_verdict[1].history = filt_verdict[1].worker
    /\ (filt_kept # None /\ filt_pushed # None) => filt_kept[1] = filt_pushed[1]

\* a lost sector completed at the boundary, judged by both copies
C33_Witness ==
    /\ filt_verdict # None
    /\ filt_activity.modes = {LOSTSECTOR_ACTIVITY_MODE}
    /\ filt_activity.activity_hash = "0"
    /\ filt_activity.period = filt_reset
    /\ filt_verdict[1].worker

\* a strike completed exactly at the boundary is kept by both copies, and a
\* list of a late strike followed by an early one has lost the early one
C19_Witness ==
    /\ filt_verdict # None
    /\ filt_activity.modes = {STRIKE_ACTIVITY_MODE}
    /\ filt_activity.activity_hash = "0"
    /\ filt_activity.period = filt_reset
    /\ filt_verdict[1].history /\ filt_verdict[1].worker
    /\ filt_reset > 1
    /\ filt_list = <<Strike("C", MaxFilterPeriod), Strike("B", 1)>>
    /\ filt_kept = Some(<<Strike("C", MaxFilterPeriod)>>)
    /\ filt_pushed = filt_kept

-----------------------------------------------------------------------------
(* Properties of the weekly reset boundary, under SpecWeekly *)

HoursPerWeek == 7 * HoursPerDay

\* C20: two instants of the same reset week, the week that starts at the
\* boundary of the earlier one, have the same boundary.
C20_BoundaryConstantOverResetWeek ==
    (wk_b1 # None /\ wk_b2 # None) =>
        ((wk_b1[1] <= wk_t1 /\ wk_t1 <= wk_t2 /\ wk_t2 < wk_b1[1] + HoursPerWeek)
            => wk_b2[1] = wk_b1[1])

\* the first hour and the last hour of one reset week, on different weekdays
C20_Witness ==
    /\ wk_b1 # None /\ wk_b2 # None
    /\ wk_t1 = wk_b1[1]
    /\ wk_t2 = wk_b1[1] + HoursPerWeek - 1
    /\ wk_b2 = wk_b1

\* C34: the boundary of an instant is at 17:00 UTC on a Tuesday, not after
\* the instant and less than seven days before it.
C34_BoundaryIsTuesdayResetHour ==
    wk_b1 # None =>
        /\ wk_b1[1] <= wk_t1
        /\ wk_t1 < wk_b1[1] + HoursPerWeek
        /\ wk_b1[1] % HoursPerDay = RESET_HOUR
        /\ num_days_from_monday(wk_b1[1] \div HoursPerDay) = 1

\* an instant of a Tuesday evening whose boundary lies six days back
TuesdayEveningHasOldBoundary ==
    /\ wk_b1 # None
    /\ num_days_from_monday(wk_t1 \div HoursPerDay) = 1
    /\ wk_t1 % HoursPerDay >= RESET_HOUR
    /\ wk_b1[1] = (wk_t1 \div HoursPerDay - 6) * HoursPerDay + RESET_HOUR

\* the boundary is the latest Wednesday 17:00 UTC not after the instant
BoundaryIsLatestWednesdayResetHour ==
    wk_b1 # None =>
        /\ wk_b1[1] <= wk_t1
        /\ wk_t1 < wk_b1[1] + HoursPerWeek
        /\ wk_b1[1] % HoursPerDay = RESET_HOUR
        /\ num_days_from_monday(wk_b1[1] \div HoursPerDay) = 2

-----------------------------------------------------------------------------
(* Properties of the cache saves, under SpecSave *)

\* C21: a history update that saves the store does not wait for the write:
\* while a write is in progress the update that started it is not held up,
\* and a failing save changes neither the result nor the store in memory.
C21_UpdateDoesNotAwaitSave ==
    /\ [](\A w \in writes : pcSave[w.task] # "writing")
    /\ [](\A t \in SaveTasks : pcSave[t] = "returned" => saveRes[t] = "ok")
    /\ [][\A w \in writes : (w \notin writes' /\ disk' = disk) => mem' = mem]_vars

\* the part the code keeps: a failed save changes neither the result of the
\* update nor the store in memory
FailedSaveChangesNothing ==
    /\ [](\A t \in SaveTasks : pcSave[t] = "returned" => saveRes[t] = "ok")
    /\ [][\A w \in writes : (w \notin writes' /\ disk' = disk) => mem' = mem]_vars

UpdateReturnedAfterFailedSave ==
    \E t \in SaveTasks : pcSave[t] = "returned" /\ saveErr[t] /\ mem = t /\ disk # t

\* C22: no two saves of the cache file are in progress at the same time, a
\* reset that aborts a saving cycle included.
C22_SavesSerialized ==
    Cardinality(writes) <= 1

\* the part the code keeps: the saves of tasks that were not aborted are
\* serialized by the mutex of the store
LiveSavesSerialized ==
    Cardinality({w \in writes : pcSave[w.task] # "aborted"}) <= 1

TwoWritesAfterReset ==
    \E w1, w2 \in writes :
        /\ w1.task < w2.task
        /\ pcSave[w1.task] = "aborted"
        /\ pcSave[w2.task] = "writing"

-----------------------------------------------------------------------------
(* Properties of the shared semaphore, under SpecChars *)

RequestsInFlight == Cardinality({w \in AllWorkers : chpc[w] = "inflight"})

\* C23: the page requests in flight, over the workers of all characters,
\* never exceed the capacity of the one semaphore they share.
C23_RequestsInFlightWithinPermits ==
    /\ RequestsInFlight <= HistoryPermits
    /\ RequestsInFlight + sharedPermits = HistoryPermits

\* every permit is out, and a worker of another character waits for one
C23_Witness ==
    /\ RequestsInFlight = HistoryPermits
    /\ \E w1, w2 \in AllWorkers :
          /\ CharOf(w1) # CharOf(w2)
          /\ chpc[w1] = "inflight"
          /\ chpc[w2] = "acquire"

-----------------------------------------------------------------------------
(* Properties of update_current, under SpecCurrent *)

\* the remote's start date against the one the call started from
RemoteIsNewer ==
    cur_latest # None /\ cur_last.start_date < cur_latest[1].date_activity_started

RemoteIsOlder ==
    cur_latest # None /\ cur_last.start_date > cur_latest[1].date_activity_started

RemoteIsSame ==
    /\ cur_latest # None
    /\ cur_last.start_date = cur_latest[1].date_activity_started
    /\ \/ cur_last.activity_info = None
       \/ cur_last.activity_hash = cur_latest[1].current_activity_hash

\* C29: update_current never moves the start date backward and takes over a
\* strictly newer remote one; an older remote date, and an equal one with no
\* known activity info or with the same hash, end the call with Ok(false),
\* without a lookup and with the CurrentActivity as it was; a missing
\* definition ends it with Ok(true) and no activity info.
C29_StartDateNeverMovesBack ==
    /\ cur_now.start_date >= cur_last.start_date
    /\ RemoteIsNewer => cur_now.start_date = cur_latest[1].date_activity_started
    /\ (RemoteIsOlder \/ RemoteIsSame) =>
          /\ pcCur = "returned"
          /\ cur_res = "ok_false"
          /\ cur_now = cur_last
    /\ (pcCur = "returned" /\ cur_lookup = "missing") =>
          /\ cur_res = "ok_true"
          /\ cur_now.activity_info = None

\* an activity was known; the remote reports a newer one without definition
C29_Witness ==
    /\ pcCur = "returned"
    /\ RemoteIsNewer
    /\ cur_last.activity_info # None
    /\ cur_lookup = "missing"
    /\ cur_res = "ok_true"

\* the remote reports an older start date than the known one
OlderRemoteIgnored ==
    /\ pcCur = "returned"
    /\ RemoteIsOlder
    /\ cur_last.activity_info # None
    /\ cur_last.activity_hash # cur_latest[1].current_activity_hash

-----------------------------------------------------------------------------
(* The error of the status after a steady tick, under SpecPoller *)

\* the last cycle was a tick of the loop that returned Ok
SteadyTickSucceeded ==
    /\ pcPoller = "sleeping"
    /\ lastCycle.phase = "steady"
    /\ lastCycle.res \in {"ok_true", "ok_false"}

\* C35: after a tick of the loop that returned Ok, with or without a
\* change, neither the status nor what was last published carries an error.
C35_SuccessfulTickClearsError ==
    SteadyTickSucceeded =>
        /\ status.error = None
        /\ published # None => published[1].error = None

\* a tick failed, the next one returned Ok(false), and the error is still
\* on the status
ErrorOutlivesUnchangedTick ==
    /\ SteadyTickSucceeded
    /\ lastCycle.res = "ok_false"
    /\ status.error # None
    /\ published = Some(status)

\* the part the code keeps: a tick that returned Ok(true) clears the error
ChangedTickClearsError ==
    (SteadyTickSucceeded /\ lastCycle.res = "ok_true") =>
        /\ status.error = None
        /\ published = Some(status)

-----------------------------------------------------------------------------
(* The poller's phases, under SpecPoller *)

\* the task is in its loop: asleep or inside the refresh of a tick
Steady == pcPoller \in {"sleeping", "steady_current", "steady_history"}

\* the loop is entered from the first update_history alone, when it
\* succeeded, with the snapshot stored
SteadyOnlyAfterBootstrapHistory ==
    [][(~Steady /\ Steady') =>
          /\ pcPoller = "bootstrap_history"
          /\ lastCycle' \in {Cycle("bootstrap", "history", "ok_true"),
                             Cycle("bootstrap", "history", "ok_false")}
          /\ status'.last_update # None]_vars

\* profile info, then current activity, then history; a failed first
\* update_current ends the task
BootstrapInOrder ==
    /\ [][(pcPoller # "bootstrap_history" /\ pcPoller' = "bootstrap_history") =>
             pcPoller = "bootstrap_current"]_vars
    /\ [][(pcPoller # "bootstrap_current" /\ pcPoller' = "bootstrap_current") =>
             pcPoller = "profile_info"]_vars
    /\ [][(pcPoller # "profile_info" /\ pcPoller' = "profile_info") =>
             pcPoller = "spawned"]_vars
    /\ [][(/\ pcPoller = "bootstrap_current"
           /\ lastCycle' = Cycle("bootstrap", "current", "err")) =>
             pcPoller' = "exited"]_vars

\* a task spawned without a selected profile publishes the error and ends
NoProfileEndsTask ==
    [][(pcPoller = "spawned" /\ selected_profile = None /\ pcPoller' # "spawned") =>
          /\ pcPoller' = "exited"
          /\ status'.error = Some("No profile set")
          /\ published' = Some(status')]_vars

ExitedWithoutProfile ==
    /\ pcPoller = "exited"
    /\ selected_profile = None
    /\ published = Some(status)
    /\ status.error = Some("No profile set")

-----------------------------------------------------------------------------
(* Properties of the two paths of update_history, under SpecLifetime *)

\* lines 305-309 and 409: the bulk fetch is started exactly when the store
\* has no entry for the profile, the cached branch exactly when it has one
PathFollowsEntry ==
    [][(life_pc = "idle" /\ life_pc' # "idle") =>
          /\ life_pc' = "bulk" <=> ~HasEntry(cache, life_profile)
          /\ life_pc' = "incremental" <=> HasEntry(cache, life_profile)]_vars

\* a bulk fetch that is through has left an entry for its profile
CompletedBulkLeavesEntry ==
    \A p \in Profiles : bulk_completed[p] > 0 => HasEntry(cache, p)

\* C31 as stated: bulk fetch iff no entry, cached branch iff an entry; a
\* completed bulk fetch leaves an entry; the bulk fetch runs at most once
\* for a profile.
C31_BulkRunsAtMostOnce ==
    /\ PathFollowsEntry
    /\ []CompletedBulkLeavesEntry
    /\ [](\A p \in Profiles : bulk_started[p] <= 1)

\* C31, amended: bulk fetch iff no entry, cached branch iff an entry; a
\* completed bulk fetch leaves an entry, so the bulk fetch completes at most
\* once for a profile and is not started again after it has stored its
\* result; a bulk fetch aborted by reset before it stored its result leaves
\* no entry and the next history update of the profile starts it again.
C31_BulkCompletesAtMostOnce ==
    /\ PathFollowsEntry
    /\ []CompletedBulkLeavesEntry
    /\ [](\A p \in Profiles : bulk_completed[p] <= 1)
    /\ [][\A p \in Profiles :
             HasEntry(cache, p) => bulk_started'[p] = bulk_started[p]]_vars
    /\ [][\A p \in Profiles : HasEntry(cache, p) => HasEntry(cache', p)]_vars

\* a bulk fetch is through and a later update of the profile runs the cached
\* branch
C31_Witness ==
    /\ life_pc = "incremental"
    /\ bulk_completed[life_profile] = 1
    /\ bulk_started[life_profile] = 1

\* reset came during the first bulk fetch; the second one is running
BulkStartedAgainAfterReset ==
    /\ life_pc = "bulk"
    /\ bulk_started[life_profile] = 2
    /\ bulk_completed[life_profile] = 0

-----------------------------------------------------------------------------
(* Properties of reset against a running task, under SpecAbort *)

\* reset has stored and sent the default status
DefaultStored == \E i \in 1..Len(ab_log) : ab_log[i] = 0

\* C36: once reset has stored the default status, the aborted cycle neither
\* writes nor publishes the shared status: everything written and sent from
\* then on comes from the cycle that reset started.
C36_NoPublishByAbortedCycle ==
    /\ \A i, j \in 1..Len(ab_log) : (i < j /\ ab_log[i] = 0) => ab_log[j] # 1
    /\ DefaultStored => ab_status # 1

\* the aborted task has written and sent its status after reset's default
AbortedCyclePublishedAfterDefault ==
    /\ DefaultStored
    /\ ab_aborted[1]
    /\ ab_status = 1
    /\ ab_log[Len(ab_log)] = 1

\* the part the code keeps: an aborted task that was not being polled when
\* abort was called never holds the status mutex again
SuspendedTaskStaysOut ==
    [][(ab_aborted[1] /\ ab_task[1] \in {"suspended", "waiting", "gone"}) =>
          ab_task'[1] \in {"suspended", "waiting", "gone"}]_vars

====
